---------------------------- MODULE Spec2Model ----------------------------
(***************************************************************************)
(* Model of the routing kernel of RxBot (src/core/Router.ts).              *)
(*                                                                         *)
(* One behaviour of Spec is one resolution getRouteFirst$(...routers)(r)   *)
(* or getRouteBest$(...routers)(r), from the subscription of the caller to *)
(* the end of the resolution.  The routers of the list are the environment:*)
(* once its getRoute$ is invoked and subscribed, a router may deliver      *)
(* routes, complete, fail, or stay silent, synchronously inside the        *)
(* subscribe call or later.  The RxJS operators of the two pipelines       *)
(* (from, filter, takeWhile, concatMap, take, defaultIfEmpty) are modelled *)
(* by what they do to the stream.                                          *)
(*                                                                         *)
(* Scores are fixed-point numbers in tenths: One stands for the score 1.    *)
(***************************************************************************)
EXTENDS Integers, Sequences, FiniteSets, TLC

\* Bounds of the model.
MaxRouters == 3   \* longest router list given to a combinator
MaxEmit    == 1   \* most routes one router delivers in one resolution

\* The score 1 (default score of actionRoute, early-exit score of best), in tenths.
One == 10

\* The scores the routers of the environment give to their routes: 0, 0.5 and 1.
CandScores == {0, 5, One}

VARIABLES
    op,            \* combinator under resolution: "first" or "best"
    routers,       \* the argument list: TRUE is a Router, FALSE an undefined entry
    fromIdx,       \* Observable.from(routers): index of the next entry to emit
    fromDone,      \* the from loop has ended, i.e. the subscribe call has returned
    syncRouter,    \* router whose subscription is in its synchronous phase (0: none)
    status,        \* per router: "idle", "subscribed", "completed", "errored", "unsubscribed"
    emitted,       \* per router: the routes it has delivered so far
    active,        \* concatMap: the routers whose inner subscription is live
    buffer,        \* concatMap: the routers waiting for their turn
    hasCompleted,  \* concatMap: the outer stream has completed
    isEmpty,       \* defaultIfEmpty: nothing has passed yet
    pipe,          \* the subscription of the operator chain: "open" or "closed"
    bestRoute,     \* getRouteBest$: the best route so far
    arrived,       \* the routes the routers delivered, in arrival order
    observer       \* the caller's observer: [out, state, failure]

\* The variables of a resolution of first or best (specification Spec).
chainVars == <<op, routers, fromIdx, fromDone, syncRouter, status, emitted, active,
               buffer, hasCompleted, isEmpty, pipe, bestRoute, arrived, observer>>

\* Route construction and score recombination (specification SpecScore).
VARIABLES
    heap,          \* the route objects built so far, by reference 1, 2, ...
    argRoute,      \* reference of the route given to the last call (0: none)
    argScore,      \* score given to the last call
    before,        \* the fields of that route when the call was made
    retRoute,      \* reference the last call returned (0: none)
    scorePc        \* "off", "start", "made" (a route was built), "recombined"

scoreVars == <<heap, argRoute, argScore, before, retRoute, scorePc>>

\* Normalization of a matcher's response (specification SpecNorm).
VARIABLES
    routable,      \* the input the matcher is applied to
    predicateResult, \* what a predicate returned, when the matcher is made of one
    normInput,     \* the value the matcher returned
    normalized,    \* what normalizeMatchResult made of it
    normPc         \* "off", "start", "returned", "failed", "done"

normVars == <<routable, predicateResult, normInput, normalized, normPc>>

\* Resolution of a composed router, then execution of its route
\* (specification SpecRoute).
VARIABLES
    router,        \* the router under resolution, as a tree of combinators
    resolution,    \* outcome of router.getRoute$(routable)
    calls,         \* the collaborators invoked so far, in order
    delivered,     \* how many of the handlers called have delivered their result
    routePc        \* "off", "start", "resolved", "acting", "acted"

routeVars == <<router, resolution, calls, delivered, routePc>>

\* Two resolutions of one router built by first or best (specification SpecTwo).
VARIABLES
    combinator,    \* the combinator the router was built by: "first" or "best"
    candidates,    \* per resolution: the route each listed router yields for its routable
    cells,         \* the state a subscription of the chain keeps: [at, best]
    observers      \* per subscribed resolution: the caller's observer

twoVars == <<combinator, candidates, cells, observers>>

\* Scored results of the transform library built by Scored.from
\* (specification SpecScored).
VARIABLES
    scoreds,       \* the Scored instances built so far, by reference 1, 2, ...
    fromArg,       \* the result given to the last call of Scored.from
    fromScore,     \* the score given to that call (undefined: omitted)
    fromBefore,    \* the Scored instances as they were when the call was made
    fromRet,       \* what the call returned
    fromCalls      \* number of calls made; -1 outside this specification

scoredVars == <<scoreds, fromArg, fromScore, fromBefore, fromRet, fromCalls>>

\* One call of a transform built by multiple, sorted or best of the transform
\* library (specification SpecMultiple).
VARIABLES
    helper,        \* the function that built the transform: "multiple", "sorted", "best"
    transforms,    \* what each transform given to it returns for the arguments of the call
    undelivered,   \* the transforms called whose result has not arrived yet
    collection,    \* toArray: the results that have arrived, in arrival order
    output,        \* what the call has emitted
    multiPc        \* "off", "start", "called", "done"

multiVars == <<helper, transforms, undelivered, collection, output, multiPc>>

\* top of the transform library: the construction of a transform from options,
\* then one call of it (specification SpecTop).
VARIABLES
    options,       \* the options given to top (undefined: none)
    topBuilt,      \* what top(options) gave: the limits of the transform, or a failure
    topInput,      \* the Multiple the transform is called on
    topOutput,     \* what the transform returned
    topPc          \* "off", "start", "built", "failed", "called"

topVars == <<options, topBuilt, topInput, topOutput, topPc>>

\* match of src/matching.ts: calls of the transform built by
\* match(matcher, onResult, onNull) (specification SpecMatch).
VARIABLES
    matcherRet,     \* what the matcher returned in the current call (a value or a promise of one)
    onResultFn,    \* what onResult returns when called
    onNullFn,      \* what onNull returns when called; Absent: onNull omitted
    invocations,   \* the branches the current call invoked, with their arguments, in order
    matchRet,      \* the promise the current call returned
    matchPc,       \* "off", "idle", "matched", "returned"
    matchCalls     \* the calls of the transform made so far

matchVars == <<matcherRet, onResultFn, onNullFn, invocations, matchRet, matchPc, matchCalls>>

\* Router.route$: calls of route$ on a router (specification SpecRun).
VARIABLES
    yielded,       \* what router.getRoute$(routable) yields in the current call
    actionCalls,   \* how many times the current call has invoked route.action()
    actionLeft,    \* the values the action's observable has still to deliver
    routeOut,      \* what the current call of route$ has emitted, in order
    runPc,         \* "off", "start", "subscribed", "acting", "done"
    runs           \* the calls of route$ made so far

runVars == <<yielded, actionCalls, actionLeft, routeOut, runPc, runs>>

\* best of the legacy library (src/unnamed/part_004): one resolution
\* (specification SpecLegacy).
VARIABLES
    legacyRouters, \* the argument list: undefined entries, and routers with what they yield
    legacyLeft,    \* the routers subscribed whose getRoute has not completed yet
    legacyAcc,     \* reduce: the accumulated route
    legacyOut,     \* what getRoute of the router built by best has emitted
    legacyPc       \* "off", "start", "running", "done"

legacyVars == <<legacyRouters, legacyLeft, legacyAcc, legacyOut, legacyPc>>

\* What a resolution of first or best leaves alone.
others == <<scoreVars, normVars, routeVars, twoVars, scoredVars, multiVars, topVars, matchVars, runVars, legacyVars>>

vars == <<chainVars, others>>

\* The parts of the model a specification does not use stay in these states.
Off == "off"

\* No predicate is involved.
NoPredicate == [t |-> "off"]

ScoreOff ==
    /\ heap = <<>> /\ argRoute = 0 /\ argScore = Off /\ before = Off
    /\ retRoute = 0 /\ scorePc = Off

NormOff == routable = Off /\ predicateResult = NoPredicate /\ normInput = Off /\ normalized = Off /\ normPc = Off

RouteOff ==
    router = Off /\ resolution = Off /\ calls = <<>> /\ delivered = 0 /\ routePc = Off

TwoOff ==
    combinator = Off /\ candidates = <<>> /\ cells = <<>> /\ observers = <<>>

\* No call has been made.
NoCall == [t |-> "off"]

ScoredOff ==
    /\ scoreds = <<>> /\ fromArg = NoCall /\ fromScore = NoCall
    /\ fromBefore = <<>> /\ fromRet = NoCall /\ fromCalls = -1

MultiOff ==
    /\ helper = Off /\ transforms = <<>> /\ undelivered = {} /\ collection = <<>>
    /\ output = <<>> /\ multiPc = Off

TopOff ==
    /\ options = NoCall /\ topBuilt = NoCall /\ topInput = NoCall /\ topOutput = NoCall
    /\ topPc = Off

MatchOff ==
    /\ matcherRet = NoCall /\ onResultFn = NoCall /\ onNullFn = NoCall
    /\ invocations = <<>> /\ matchRet = NoCall /\ matchPc = Off /\ matchCalls = -1

RunOff ==
    /\ yielded = NoCall /\ actionCalls = -1 /\ actionLeft = <<>> /\ routeOut = <<>>
    /\ runPc = Off /\ runs = -1

LegacyOff ==
    /\ legacyRouters = <<>> /\ legacyLeft = {} /\ legacyAcc = NoCall /\ legacyOut = <<>>
    /\ legacyPc = Off

-----------------------------------------------------------------------------
\* Routes

actionRoute(action, score) == [type |-> "action", action |-> action, score |-> score]

defaultReason == "none"

noRoute(reason) == [type |-> "no", reason |-> reason]

\* The sentinel best starts from; its action is the marker <<0, 0>>, which is the
\* action of no router.
minRoute == actionRoute(<<0, 0>>, 0)

\* The routes router k may deliver as its n-th route: the action names its origin.
RoutesOf(k, n) ==
    {noRoute(defaultReason)} \cup {actionRoute(<<k, n>>, s) : s \in CandScores}

-----------------------------------------------------------------------------
\* The caller's observer (an RxJS Subscriber: nothing gets through once stopped)

NewObserver == [out |-> <<>>, state |-> "open", failure |-> 0]

ObserverNext(o, route) ==
    IF o.state = "open" THEN [o EXCEPT !.out = Append(@, route)] ELSE o

\* Variant: complete() never marks the observer as stopped.
ObserverCompleteNever(o) == o

ObserverComplete(o) ==
    IF o.state = "open" THEN [o EXCEPT !.state = "complete"] ELSE o

\* Variant: the failure caught and answered with a no-route.
ObserverErrorAsNoRoute(o, e) == ObserverComplete(ObserverNext(o, noRoute(defaultReason)))

ObserverError(o, e) ==
    IF o.state = "open" THEN [o EXCEPT !.state = "error", !.failure = e] ELSE o


-----------------------------------------------------------------------------
\* The operators of the two pipelines

\* Variant: mergeMap without a concurrency limit (flatMap for concatMap).
ConcurrentUnlimited(o) == MaxRouters + 1

\* concatMap(project) is mergeMap(project, 1): one inner subscription at a time.
Concurrent(o) == 1

\* .filter(route => route.type === 'action')
PassesFilter(route) == route.type = "action"

\* Variant: the chain without its take(1).
TakeNever(count) == FALSE

\* getRouteFirst$: .take(1), asked when the count-th route arrives.
TakeReached(count) == count >= 1

\* Variant: the default no-route built without its reason, Router.noRoute().
FirstDefaultNoReason == noRoute(defaultReason)

\* getRouteFirst$: .defaultIfEmpty(Router.noRoute('tryInOrder'))
FirstDefault == noRoute("tryInOrder")

\* Variant: the chain without its takeWhile.
TakeWhileAlways(best) == TRUE

\* getRouteBest$: .takeWhile(_ => bestRoute.score < 1)
TakeWhile(best) == best.score < One

\* getRouteBest$: .defaultIfEmpty(Router.noRoute('tryInScoreOrder'))
BestDefault == noRoute("tryInScoreOrder")

\* Variant: >= for >.
IsBetterOrEqual(route, best) == "score" \in DOMAIN route /\ route.score >= best.score

\* Variant: the comparison left out, every scored route becomes the best.
IsAny(route, best) == "score" \in DOMAIN route

\* route.score > bestRoute.score; a no-route has no score and undefined > n is false.
IsBetter(route, best) == "score" \in DOMAIN route /\ route.score > best.score

\* bestRoute.score === 1
IsCertain(route) == route.score = One

\* bestRoute.score > 0, asked when the candidates are exhausted.
IsRealRoute(best) == best.score > 0

\* getRouteBest$: the next handler of the inner subscription.
BestOnNext(route, best, o) ==
    IF IsBetter(route, best)
    THEN [best |-> route,
          obs  |-> IF IsCertain(route)
                   THEN ObserverComplete(ObserverNext(o, route))
                   ELSE o]
    ELSE [best |-> best, obs |-> o]

\* Variant: a subscription without error handler towards the observer.
BestOnErrorDropped(e, o) == o

\* getRouteBest$: the error handler of the inner subscription.
BestOnError(e, o) == ObserverError(o, e)

\* getRouteBest$: the complete handler of the inner subscription.
BestOnComplete(best, o) ==
    ObserverComplete(IF IsRealRoute(best) THEN ObserverNext(o, best) ELSE o)

\* Variant: no teardown returned to the Observable constructor.
TeardownMissing(o, returned) == FALSE

\* getRouteBest$: return () => subscription.unsubscribe().  The teardown runs when
\* the observer has stopped, as soon as the subscribe call has returned it.
Teardown(o, returned) == o.state # "open" /\ returned

\* What the chain below concatMap does with a route: [best, obs, empty, stop];
\* stop says that the chain unsubscribes from its source.
Downstream(route) ==
    IF ~PassesFilter(route)
    THEN [best |-> bestRoute, obs |-> observer, empty |-> isEmpty, stop |-> FALSE]
    ELSE IF op = "first"
    THEN LET n == Len(observer.out) + 1
         IN  [best  |-> bestRoute,
              obs   |-> IF TakeReached(n)
                        THEN ObserverComplete(ObserverNext(observer, route))
                        ELSE ObserverNext(observer, route),
              empty |-> FALSE,
              stop  |-> TakeReached(n)]
    ELSE LET r == BestOnNext(route, bestRoute, observer)
         IN  [best |-> r.best, obs |-> r.obs, empty |-> FALSE, stop |-> FALSE]

\* What the chain below concatMap does when concatMap completes: [best, obs].
DownstreamComplete ==
    IF op = "first"
    THEN [best |-> bestRoute,
          obs  |-> ObserverComplete(IF isEmpty
                                    THEN ObserverNext(observer, FirstDefault)
                                    ELSE observer)]
    ELSE LET r == IF isEmpty
                  THEN BestOnNext(BestDefault, bestRoute, observer)
                  ELSE [best |-> bestRoute, obs |-> observer]
         IN  [best |-> r.best, obs |-> BestOnComplete(r.best, r.obs)]

\* Unsubscribing the chain unsubscribes every live inner subscription.
Unsubscribed(st) ==
    [k \in DOMAIN st |-> IF st[k] = "subscribed" THEN "unsubscribed" ELSE st[k]]

\* The end of a step: the chain closes when it stopped by itself (take reached its
\* count, an error or a completion went through) or when the teardown runs.
Settle(st, act, buf, hc, best, obs, empty, stop, returned, sync) ==
    LET closing == stop \/ Teardown(obs, returned)
    IN  /\ pipe' = IF closing THEN "closed" ELSE pipe
        /\ status' = IF closing THEN Unsubscribed(st) ELSE st
        /\ active' = IF closing THEN {} ELSE act
        /\ buffer' = IF closing THEN <<>> ELSE buf
        /\ fromDone' = (returned \/ closing)
        /\ syncRouter' = IF returned \/ closing THEN 0 ELSE sync
        /\ hasCompleted' = hc
        /\ bestRoute' = best
        /\ observer' = obs
        /\ isEmpty' = empty

-----------------------------------------------------------------------------
\* The resolution

Lists == UNION {[1 .. n -> BOOLEAN] : n \in 0 .. MaxRouters}

Init ==
    /\ op \in {"first", "best"}
    /\ routers \in Lists
    /\ fromIdx = 1
    /\ fromDone = FALSE
    /\ syncRouter = 0
    /\ status = [k \in DOMAIN routers |-> "idle"]
    /\ emitted = [k \in DOMAIN routers |-> <<>>]
    /\ active = {}
    /\ buffer = <<>>
    /\ hasCompleted = FALSE
    /\ isEmpty = TRUE
    /\ pipe = "open"
    /\ bestRoute = minRoute
    /\ arrived = <<>>
    /\ observer = NewObserver
    /\ ScoreOff /\ NormOff /\ RouteOff /\ TwoOff /\ ScoredOff /\ MultiOff /\ TopOff /\ MatchOff /\ RunOff /\ LegacyOff

\* The source loop may go on: the subscribe call has not returned.
FromRunning == ~fromDone /\ pipe = "open"

\* concatMap reaches the end of its outer stream.
OuterComplete ==
    IF active = {} /\ buffer = <<>>
    THEN LET d == DownstreamComplete
         IN  Settle(status, active, buffer, TRUE, d.best, d.obs, isEmpty, TRUE, TRUE, 0)
    ELSE Settle(status, active, buffer, TRUE, bestRoute, observer, isEmpty, FALSE, TRUE, 0)

\* Observable.from(routers) emits an undefined entry: .filter(router => !!router)
FromSkip ==
    /\ FromRunning /\ fromIdx <= Len(routers)
    /\ ~routers[fromIdx]
    /\ fromIdx' = fromIdx + 1
    /\ syncRouter' = 0
    /\ UNCHANGED <<others, op, routers, fromDone, status, emitted, active, buffer,
                   hasCompleted, isEmpty, pipe, bestRoute, arrived, observer>>

\* getRouteBest$: takeWhile sees a best route of score 1 and completes.
FromTakeWhileStop ==
    /\ FromRunning /\ fromIdx <= Len(routers)
    /\ routers[fromIdx]
    /\ op = "best" /\ ~TakeWhile(bestRoute)
    /\ OuterComplete
    /\ UNCHANGED <<others, op, routers, fromIdx, emitted, arrived>>

\* The router reaches concatMap, which is free: router.getRoute$(routable) is
\* invoked and subscribed.
FromSubscribe ==
    /\ FromRunning /\ fromIdx <= Len(routers)
    /\ routers[fromIdx]
    /\ op = "best" => TakeWhile(bestRoute)
    /\ Cardinality(active) < Concurrent(op)
    /\ fromIdx' = fromIdx + 1
    /\ syncRouter' = fromIdx
    /\ status' = [status EXCEPT ![fromIdx] = "subscribed"]
    /\ active' = active \cup {fromIdx}
    /\ UNCHANGED <<others, op, routers, fromDone, emitted, buffer, hasCompleted, isEmpty,
                   pipe, bestRoute, arrived, observer>>

\* The router reaches concatMap, which is busy: the router waits in the buffer.
FromBuffer ==
    /\ FromRunning /\ fromIdx <= Len(routers)
    /\ routers[fromIdx]
    /\ op = "best" => TakeWhile(bestRoute)
    /\ Cardinality(active) >= Concurrent(op)
    /\ fromIdx' = fromIdx + 1
    /\ syncRouter' = 0
    /\ buffer' = Append(buffer, fromIdx)
    /\ UNCHANGED <<others, op, routers, fromDone, status, emitted, active, hasCompleted,
                   isEmpty, pipe, bestRoute, arrived, observer>>

\* Observable.from(routers) completes and the subscribe call returns.
FromComplete ==
    /\ FromRunning /\ fromIdx > Len(routers)
    /\ OuterComplete
    /\ UNCHANGED <<others, op, routers, fromIdx, emitted, arrived>>

\* Router k may act: it is subscribed, and either the subscribe call has returned
\* or router k is still inside its own synchronous subscription.
MayAct(k) ==
    /\ k \in DOMAIN status
    /\ status[k] = "subscribed"
    /\ fromDone \/ syncRouter = k

\* Router k delivers a route.
RouterNext(k, route) ==
    /\ MayAct(k)
    /\ Len(emitted[k]) < MaxEmit
    /\ route \in RoutesOf(k, Len(emitted[k]) + 1)
    /\ emitted' = [emitted EXCEPT ![k] = Append(@, route)]
    /\ arrived' = Append(arrived, route)
    /\ LET d == Downstream(route)
       IN  Settle(status, active, buffer, hasCompleted, d.best, d.obs, d.empty,
                  d.stop, fromDone, syncRouter)
    /\ UNCHANGED <<others, op, routers, fromIdx>>

\* Router k completes: concatMap turns to the next buffered router, or completes.
RouterComplete(k) ==
    /\ MayAct(k)
    /\ LET st  == [status EXCEPT ![k] = "completed"]
           act == active \ {k}
       IN  IF buffer # <<>>
           THEN Settle([st EXCEPT ![Head(buffer)] = "subscribed"],
                       act \cup {Head(buffer)}, Tail(buffer), hasCompleted,
                       bestRoute, observer, isEmpty, FALSE, fromDone, syncRouter)
           ELSE IF act = {} /\ hasCompleted
           THEN LET d == DownstreamComplete
                IN  Settle(st, act, buffer, hasCompleted, d.best, d.obs, isEmpty,
                           TRUE, fromDone, syncRouter)
           ELSE Settle(st, act, buffer, hasCompleted, bestRoute, observer, isEmpty,
                       FALSE, fromDone, syncRouter)
    /\ UNCHANGED <<others, op, routers, fromIdx, emitted, arrived>>

\* Router k fails: the error goes down the chain, which unsubscribes.
RouterError(k) ==
    /\ MayAct(k)
    /\ Settle([status EXCEPT ![k] = "errored"], active \ {k}, buffer, hasCompleted,
              bestRoute,
              IF op = "first" THEN ObserverError(observer, k)
                              ELSE BestOnError(k, observer),
              isEmpty, TRUE, fromDone, syncRouter)
    /\ UNCHANGED <<others, op, routers, fromIdx, emitted, arrived>>

\* The caller unsubscribes from the resolution it holds.
Unsubscribe ==
    /\ fromDone /\ observer.state = "open"
    /\ Settle(status, active, buffer, hasCompleted, bestRoute,
              [observer EXCEPT !.state = "unsubscribed"], isEmpty, FALSE, TRUE, 0)
    /\ UNCHANGED <<others, op, routers, fromIdx, emitted, arrived>>

Next ==
    \/ FromSkip
    \/ FromTakeWhileStop
    \/ FromSubscribe
    \/ FromBuffer
    \/ FromComplete
    \/ \E k \in 1 .. MaxRouters : \E s \in CandScores \cup {-1} :
          RouterNext(k, IF s = -1 THEN noRoute(defaultReason)
                                  ELSE actionRoute(<<k, Len(emitted[k]) + 1>>, s))
    \/ \E k \in 1 .. MaxRouters : RouterComplete(k)
    \/ \E k \in 1 .. MaxRouters : RouterError(k)
    \/ Unsubscribe

Spec == Init /\ [][Next]_vars

-----------------------------------------------------------------------------
\* Vocabulary of the properties

\* The entries of the list that are routers.
Present == {k \in DOMAIN routers : routers[k]}

\* getRoute$ of router k has been invoked.
Invoked(k) == status[k] # "idle"

\* Router k has delivered an actionable route.
YieldsAction(k) == \E i \in DOMAIN emitted[k] : emitted[k][i].type = "action"

\* The first actionable route router k has delivered.
FirstActionOf(k) ==
    LET i == CHOOSE i \in DOMAIN emitted[k] :
                 /\ emitted[k][i].type = "action"
                 /\ \A j \in 1 .. i - 1 : emitted[k][j].type # "action"
    IN  emitted[k][i]

\* Router k is the lowest-index router that has delivered an actionable route.
LowestYielding(k) ==
    /\ k \in Present
    /\ YieldsAction(k)
    /\ \A j \in Present : j < k => ~YieldsAction(j)

\* The deliveries of routers 1 .. k, in list order.
RECURSIVE InListOrder(_)
InListOrder(k) == IF k = 0 THEN <<>> ELSE InListOrder(k - 1) \o emitted[k]

\* What first must resolve to, from what each router delivered and nothing else.
ExpectedFirst ==
    IF \E k \in Present : YieldsAction(k)
    THEN FirstActionOf(CHOOSE k \in Present : LowestYielding(k))
    ELSE noRoute("tryInOrder")

-----------------------------------------------------------------------------
\* C1: getRouteFirst$ resolves to the route of the lowest-index router that
\* yields an actionable route, and getRoute$ of no router after that one is
\* invoked, then or later.
C1_FirstShortCircuit ==
    op = "first" =>
        /\ \A k \in Present :
              LowestYielding(k) =>
                  /\ observer.out = <<FirstActionOf(k)>>
                  /\ observer.state = "complete"
                  /\ \A j \in Present : j > k => ~Invoked(j)
        /\ \A i \in DOMAIN observer.out :
              observer.out[i].type = "action" => \E k \in Present : YieldsAction(k)

\* C1 happens: router 1 answered no-route, router 2 an actionable route, and
\* router 3 was left alone.
C1_Witness ==
    /\ op = "first"
    /\ routers = <<TRUE, TRUE, TRUE>>
    /\ emitted[1] = <<noRoute(defaultReason)>>
    /\ status[1] = "completed"
    /\ YieldsAction(2)
    /\ observer.state = "complete"
    /\ observer.out = <<FirstActionOf(2)>>
    /\ status[3] = "idle"

\* C2: in first, router k+1 is not started before router k has completed, so the
\* deliveries arrive in list order whatever the timing, and the result is the one
\* fixed by what each router delivers.
C2_FirstSequential ==
    op = "first" =>
        /\ \A k \in Present :
              Invoked(k) => \A j \in Present : j < k => status[j] = "completed"
        /\ arrived = InListOrder(Len(routers))
        /\ observer.state = "complete" => observer.out = <<ExpectedFirst>>

\* C2 happens: router 1 was slow (routers 2 and 3 had to wait), it has completed,
\* router 2 is running and router 3 still waits.
C2_Witness ==
    /\ op = "first"
    /\ routers = <<TRUE, TRUE, TRUE>>
    /\ fromDone
    /\ status[1] = "completed"
    /\ status[2] = "subscribed"
    /\ buffer = <<3>>
    /\ observer.state = "open"

\* C3: when no router of the list yields an actionable route (all answer no-route
\* or nothing, the list is empty or holds only undefined entries), getRouteFirst$
\* yields exactly one no-route, of reason 'tryInOrder'.
C3_FirstNoRoute ==
    (/\ op = "first"
     /\ observer.state = "complete"
     /\ \A k \in Present : ~YieldsAction(k))
    => observer.out = <<noRoute("tryInOrder")>>

\* C3 happens: a list with an undefined entry whose two routers answered no-route.
C3_Witness ==
    /\ op = "first"
    /\ routers = <<TRUE, FALSE, TRUE>>
    /\ emitted[1] = <<noRoute(defaultReason)>>
    /\ emitted[3] = <<noRoute(defaultReason)>>
    /\ observer.state = "complete"
    /\ observer.out = <<noRoute("tryInOrder")>>

-----------------------------------------------------------------------------
\* Vocabulary of the properties of best

\* The actionable routes the routers have delivered.
DeliveredActions ==
    {r \in UNION {{emitted[k][i] : i \in DOMAIN emitted[k]} : k \in DOMAIN emitted} :
        r.type = "action"}

\* Router k has delivered an actionable route of score 1.
YieldsCertain(k) ==
    \E i \in DOMAIN emitted[k] :
        emitted[k][i].type = "action" /\ emitted[k][i].score = One

\* The first such route.
FirstCertainOf(k) ==
    LET i == CHOOSE i \in DOMAIN emitted[k] :
                 /\ emitted[k][i].type = "action" /\ emitted[k][i].score = One
                 /\ \A j \in 1 .. i - 1 :
                       ~(emitted[k][j].type = "action" /\ emitted[k][j].score = One)
    IN  emitted[k][i]

\* The best of the first n arrivals: the earliest arrival of the highest score.
RECURSIVE ReduceBest(_)
ReduceBest(n) ==
    IF n = 0
    THEN minRoute
    ELSE LET b == ReduceBest(n - 1)
             r == arrived[n]
         IN  IF r.type = "action" /\ r.score > b.score THEN r ELSE b

-----------------------------------------------------------------------------
\* C4 (as claimed): getRouteBest$ resolves to a no-route Route whenever no
\* candidate yields an actionable route of score above 0 (empty list, only
\* no-routes, best score exactly 0).
C4_BestNoRoute ==
    (/\ op = "best"
     /\ observer.state = "complete"
     /\ \A r \in DeliveredActions : r.score <= 0)
    => /\ Len(observer.out) = 1
       /\ observer.out[1].type = "no"

\* C5: when no candidate reaches score 1, the route getRouteBest$ yields is an
\* actionable route delivered by one of the routers, of a score at least that of
\* every actionable route delivered; and it yields one as soon as the candidates
\* are exhausted and one of them scored above 0.
C5_BestMaximal ==
    (op = "best" /\ \A r \in DeliveredActions : r.score < One) =>
        /\ observer.out # <<>> =>
              /\ Len(observer.out) = 1
              /\ observer.out[1] \in DeliveredActions
              /\ \A r \in DeliveredActions : observer.out[1].score >= r.score
        /\ (observer.state = "complete" /\ \E r \in DeliveredActions : r.score > 0)
              => observer.out # <<>>

\* C5 happens: the routers scored 0, 0.5 and 0.5, and a route of score 0.5 came out.
C5_Witness ==
    /\ op = "best"
    /\ routers = <<TRUE, TRUE, TRUE>>
    /\ observer.state = "complete"
    /\ Len(observer.out) = 1
    /\ observer.out[1].score = 5
    /\ emitted[1] = <<actionRoute(<<1, 1>>, 0)>>
    /\ emitted[2] = <<actionRoute(<<2, 1>>, 5)>>
    /\ emitted[3] = <<actionRoute(<<3, 1>>, 5)>>

\* C6: among candidates sharing the highest score, the first to be delivered is
\* the result: the best route is at all times the earliest arrival of its score,
\* and it is what the observer gets.
C6_BestTie ==
    op = "best" =>
        /\ \/ bestRoute = minRoute
           \/ \E i \in DOMAIN arrived :
                 /\ arrived[i] = bestRoute
                 /\ \A j \in 1 .. i - 1 :
                       arrived[j].type = "action" => arrived[j].score < bestRoute.score
        /\ observer.out # <<>> => observer.out = <<bestRoute>>

\* C6 happens: scores 0.5, 0, 0.5 in that order (the sample's 0.85, 0.50, 0.85),
\* and the first route is the result.
C6_Witness ==
    /\ op = "best"
    /\ routers = <<TRUE, TRUE, TRUE>>
    /\ emitted[1] = <<actionRoute(<<1, 1>>, 5)>>
    /\ emitted[2] = <<actionRoute(<<2, 1>>, 0)>>
    /\ emitted[3] = <<actionRoute(<<3, 1>>, 5)>>
    /\ observer.state = "complete"
    /\ observer.out = <<actionRoute(<<1, 1>>, 5)>>

\* C7: as soon as a candidate yields an actionable route of score 1, that route is
\* the result of getRouteBest$, and getRoute$ of no router after it is invoked.
C7_BestEarlyExit ==
    op = "best" =>
        \A k \in Present :
            YieldsCertain(k) =>
                /\ observer.out = <<FirstCertainOf(k)>>
                /\ observer.state = "complete"
                /\ \A j \in Present : j > k => ~Invoked(j)

\* C7 happens: router 1 scored 0.5, router 2 scored 1 and router 3 was left alone.
C7_Witness ==
    /\ op = "best"
    /\ routers = <<TRUE, TRUE, TRUE>>
    /\ emitted[1] = <<actionRoute(<<1, 1>>, 5)>>
    /\ emitted[2] = <<actionRoute(<<2, 1>>, One)>>
    /\ observer.state = "complete"
    /\ observer.out = <<actionRoute(<<2, 1>>, One)>>
    /\ status[3] = "idle"

C9_BestCancels ==
    /\ []((op = "best" /\ observer.state # "open" /\ fromDone) =>
             /\ pipe = "closed"
             /\ active = {}
             /\ \A k \in DOMAIN status : status[k] # "subscribed")
    /\ [][(op = "best" /\ observer.state # "open") =>
             /\ observer' = observer
             /\ \A k \in DOMAIN status : status[k] = "idle" => status'[k] = "idle"]_vars

\* C9 happens: router 1 delivered a route of score 1 without completing, best
\* exited with it, router 1 was unsubscribed and router 2 never invoked.
C9_Witness ==
    /\ op = "best"
    /\ routers = <<TRUE, TRUE>>
    /\ emitted[1] = <<actionRoute(<<1, 1>>, One)>>
    /\ observer.state = "complete"
    /\ observer.out = <<actionRoute(<<1, 1>>, One)>>
    /\ status[1] = "unsubscribed"
    /\ status[2] = "idle"

\* C10 (as claimed): if the resolution of any router given to best fails, the
\* resolution of best fails with that failure.
C10_BestAlwaysFails ==
    op = "best" =>
        \A k \in Present :
            status[k] = "errored" =>
                observer.state = "error" /\ observer.failure = k

\* C10 (amended): a failure of a router fails the resolution of best with that
\* failure, whatever actionable routes of score below 1 were delivered before it;
\* the one failure that is dropped is that of a candidate that has already
\* delivered the route of score 1 best exited with.
C10_BestFailure ==
    op = "best" =>
        \A k \in Present :
            status[k] = "errored" =>
                \/ /\ observer.state = "error"
                   /\ observer.failure = k
                   /\ observer.out = <<>>
                \/ /\ YieldsCertain(k)
                   /\ observer.state = "complete"
                   /\ observer.out = <<FirstCertainOf(k)>>

\* C10 happens: router 1 delivered a route of score 0.5 and completed, router 2
\* failed, and best failed with the failure of router 2.
C10_Witness ==
    /\ op = "best"
    /\ Len(routers) >= 2
    /\ routers[1] /\ routers[2]
    /\ emitted[1] = <<actionRoute(<<1, 1>>, 5)>>
    /\ status[1] = "completed"
    /\ status[2] = "errored"
    /\ observer.state = "error"
    /\ observer.failure = 2

\* C11: when router k of getRouteFirst$ fails, the resolution fails with that very
\* failure, nothing is delivered in its place (no no-route), and getRoute$ of no
\* router after k is invoked.
C11_FirstFailure ==
    op = "first" =>
        \A k \in Present :
            status[k] = "errored" =>
                /\ observer.state = "error"
                /\ observer.failure = k
                /\ observer.out = <<>>
                /\ \A j \in Present : j > k => ~Invoked(j)

\* C11 happens: router 1 answered no-route and completed, router 2 failed, and
\* router 3 was left alone.
C11_Witness ==
    /\ op = "first"
    /\ routers = <<TRUE, TRUE, TRUE>>
    /\ emitted[1] = <<noRoute(defaultReason)>>
    /\ status[1] = "completed"
    /\ status[2] = "errored"
    /\ status[3] = "idle"
    /\ observer.state = "error"
    /\ observer.failure = 2

\* ---------------------------------------------------------------------------
\* JavaScript values, as far as matchers, predicates and scores use them.
\* Scores that are multiplied are exact rationals num/den (den > 0, lowest
\* terms): the rounding of IEEE doubles is not modelled.
\* ---------------------------------------------------------------------------

RECURSIVE Gcd(_, _)
Gcd(a, b) ==
    IF b = 0 THEN a ELSE Gcd(b, a % b)

Abs(n) ==
    IF n < 0 THEN -n ELSE n

Rat(n, d) ==
    LET g == Gcd(Abs(n), d)
    IN  [t |-> "number", num |-> n \div g, den |-> d \div g]

RatOne == Rat(1, 1)

RatZero == Rat(0, 1)

Times(x, y) ==
    Rat(x.num * y.num, x.den * y.den)

Less(x, y) ==
    x.num * y.den < y.num * x.den

InUnitInterval(x) ==
    ~Less(x, RatZero) /\ ~Less(RatOne, x)

Undefined == [t |-> "undefined"]

Null == [t |-> "null"]

Bool(b) ==
    [t |-> "boolean", b |-> b]

Str(s) ==
    [t |-> "string", s |-> s]

\* An object literal; f is a record of its own properties.
Obj(f) ==
    [t |-> "object", f |-> f]

\* typeof null is 'object'.
TypeOf(v) ==
    IF v = Null THEN "object" ELSE v.t

\* Property read; a missing property reads as undefined.
Get(o, k) ==
    IF k \in DOMAIN o.f THEN o.f[k] ELSE Undefined

Truthy(v) ==
    CASE v.t = "undefined" -> FALSE
      [] v.t = "null"      -> FALSE
      [] v.t = "boolean"   -> v.b
      [] v.t = "number"    -> v.num # 0
      [] v.t = "string"    -> v.s # ""
      [] OTHER             -> TRUE

\* A parameter with a default value takes it when the argument is undefined.
Default(v, d) ==
    IF v = Undefined THEN d ELSE v

\* An exception thrown inside an operator of the stream fails the stream.
Throw(message) ==
    [t |-> "throw", error |-> message]

Throws(v) ==
    v.t = "throw"

\* ---------------------------------------------------------------------------
\* Match results.
\* ---------------------------------------------------------------------------

NoMatchReasonError == "The reason for NoMatch must be a string"

MatchScoreError == "The score for Match must be a number"

PredicateValueError == "When returning a Match from a predicate, the value must be true or false"

PredicateError == "A predicate may only return true, false, a Match of true or false, or a NoMatch"

TypeError == "TypeError"

\* The two shapes normalizeMatchResult returns.
Match(value, score) ==
    [t |-> "match", value |-> value, score |-> score]

NoMatch(reason) ==
    [t |-> "nomatch", reason |-> reason]

isMatch(match) ==
    match.t = "match"

normalizeMatchResultOwnScore(response) ==
    IF response = Undefined \/ response = Null \/ response = Bool(FALSE)
    THEN NoMatch(Str(defaultReason))
    ELSE IF TypeOf(response) = "object" /\ Truthy(Get(response, "reason"))
    THEN IF TypeOf(Get(response, "reason")) # "string"
         THEN Throw(NoMatchReasonError)
         ELSE NoMatch(Get(response, "reason"))
    ELSE IF TypeOf(response) = "object" /\ Get(response, "value") # Undefined
    THEN IF Get(response, "score") # Undefined /\ TypeOf(Get(response, "score")) # "number"
         THEN Throw(MatchScoreError)
         ELSE Match(Get(response, "value"),
                    IF Truthy(Get(response, "score")) THEN Get(response, "score") ELSE RatOne)
    ELSE Match(response,
               IF TypeOf(response) = "object" /\ Truthy(Get(response, "score"))
               THEN Get(response, "score") ELSE RatOne)

normalizeMatchResultRoutable(response) ==
    IF response = Undefined \/ response = Null \/ response = Bool(FALSE)
    THEN NoMatch(Str(defaultReason))
    ELSE IF TypeOf(response) = "object" /\ Truthy(Get(response, "reason"))
    THEN IF TypeOf(Get(response, "reason")) # "string"
         THEN Throw(NoMatchReasonError)
         ELSE NoMatch(Get(response, "reason"))
    ELSE IF TypeOf(response) = "object" /\ Get(response, "value") # Undefined
    THEN IF Get(response, "score") # Undefined /\ TypeOf(Get(response, "score")) # "number"
         THEN Throw(MatchScoreError)
         ELSE Match(Get(response, "value"),
                    IF Truthy(Get(response, "score")) THEN Get(response, "score") ELSE RatOne)
    ELSE Match(IF response = Bool(TRUE) THEN Str("routable") ELSE response, RatOne)

normalizeMatchResult(response) ==
    IF response = Undefined \/ response = Null \/ response = Bool(FALSE)
    THEN NoMatch(Str(defaultReason))
    ELSE IF TypeOf(response) = "object" /\ Truthy(Get(response, "reason"))
    THEN IF TypeOf(Get(response, "reason")) # "string"
         THEN Throw(NoMatchReasonError)
         ELSE NoMatch(Get(response, "reason"))
    ELSE IF TypeOf(response) = "object" /\ Get(response, "value") # Undefined
    THEN IF Get(response, "score") # Undefined /\ TypeOf(Get(response, "score")) # "number"
         THEN Throw(MatchScoreError)
         ELSE Match(Get(response, "value"),
                    IF Truthy(Get(response, "score")) THEN Get(response, "score") ELSE RatOne)
    ELSE Match(response, RatOne)

predicateToMatcherDropsScore(response) ==
    IF response = Bool(TRUE) \/ response = Bool(FALSE)
    THEN response
    ELSE IF response = Null
    THEN Throw(TypeError)
    ELSE IF TypeOf(response) = "object" /\ Truthy(Get(response, "reason"))
    THEN response
    ELSE IF TypeOf(response) = "object" /\ Get(response, "value") # Undefined
    THEN IF Get(response, "value") = Bool(FALSE) THEN Bool(FALSE)
         ELSE IF Get(response, "value") = Bool(TRUE) THEN Bool(TRUE)
         ELSE Throw(PredicateValueError)
    ELSE Throw(PredicateError)

\* The mapping predicateToMatcher applies to what the predicate returned.
\* Reading a property of null throws.
predicateToMatcher(response) ==
    IF response = Bool(TRUE) \/ response = Bool(FALSE)
    THEN response
    ELSE IF response = Null
    THEN Throw(TypeError)
    ELSE IF TypeOf(response) = "object" /\ Truthy(Get(response, "reason"))
    THEN response
    ELSE IF TypeOf(response) = "object" /\ Get(response, "value") # Undefined
    THEN IF Get(response, "value") = Bool(FALSE) THEN Bool(FALSE)
         ELSE IF Get(response, "value") = Bool(TRUE) THEN response
         ELSE Throw(PredicateValueError)
    ELSE Throw(PredicateError)

\* ---------------------------------------------------------------------------
\* Scores of routes.
\* ---------------------------------------------------------------------------

combineScoreMin(score, otherScore) ==
    IF Less(score, otherScore) THEN score ELSE otherScore

combineScore(score, otherScore) ==
    Times(score, otherScore)

\* same: the call returned its argument (the very object); route: the fields of
\* the returned object.
routeWithCombinedScoreInPlace(route, newScore) ==
    [same |-> TRUE, route |-> [route EXCEPT !.score = combineScore(newScore, route.score)]]

routeWithCombinedScore(route, newScore) ==
    LET score == combineScore(newScore, route.score)
    IN  IF route.score = score
        THEN [same |-> TRUE, route |-> route]
        ELSE [same |-> FALSE, route |-> [route EXCEPT !.score = score]]

\* ---------------------------------------------------------------------------
\* Composed routers (specification SpecRoute).  A router is built by wrapping
\* combinators around a router, then router.getRoute$(routable) is subscribed
\* (Resolve), then the caller invokes the route's action as Router.route$ does
\* (Act).  Matchers, predicates, key getters and handlers return one plain
\* value, so a resolution runs to its end synchronously.  An action is the
\* sequence of handlers it will call; calls records every collaborator that was
\* actually called.
\* ---------------------------------------------------------------------------

MaxWrap == 2

\* A function supplied by the application: its role and the wrap that took it.
Fn(name, at) ==
    [fn |-> name, at |-> at]

\* What a matcher and a predicate may return.
MatcherReturns ==
    { Bool(TRUE), Bool(FALSE), Str("v"),
      Obj([value |-> Str("v"), score |-> Rat(1, 2)]),
      Obj([value |-> Str("v"), score |-> Rat(4, 5)]),
      Obj([reason |-> Str("why")]) }

PredicateReturns ==
    { Bool(TRUE), Bool(FALSE), Str("v"),
      Obj([value |-> Bool(TRUE)]),
      Obj([value |-> Bool(TRUE), score |-> Rat(1, 2)]),
      Obj([value |-> Bool(FALSE)]),
      Obj([reason |-> Str("why")]) }

\* Routers, as trees of combinators.
Do(at, score) ==
    [c |-> "do", at |-> at, handler |-> Fn("handler", at), score |-> score]

No(at, reason) ==
    [c |-> "no", at |-> at, reason |-> reason]

IfMatches(at, returns, thenRouter, elseRouter) ==
    [c |-> "ifMatches", at |-> at, matcher |-> Fn("matcher", at), returns |-> returns,
     thenRouter |-> thenRouter, elseRouter |-> elseRouter]

IfTrue(at, returns, thenRouter, elseRouter) ==
    [c |-> "ifTrue", at |-> at, matcher |-> Fn("predicate", at), returns |-> returns,
     thenRouter |-> thenRouter, elseRouter |-> elseRouter]

Before(at, inner) ==
    [c |-> "before", at |-> at, handler |-> Fn("beforeHandler", at), inner |-> inner]

After(at, inner) ==
    [c |-> "after", at |-> at, handler |-> Fn("afterHandler", at), inner |-> inner]

DefaultTo(at, mainRouter, defaultRouter) ==
    [c |-> "default", at |-> at, mainRouter |-> mainRouter, defaultRouter |-> defaultRouter]

Switch(at, key, mapKeyToRouter) ==
    [c |-> "switch", at |-> at, key |-> key, mapKeyToRouter |-> mapKeyToRouter]

First(at, list) ==
    [c |-> "first", at |-> at, list |-> list]

Best(at, list) ==
    [c |-> "best", at |-> at, list |-> list]

\* Outcome of a subscription to getRoute$: one route, nothing, or a failure;
\* log: the collaborators called on the way.
Emit(route, log) ==
    [kind |-> "next", route |-> route, log |-> log]

Empty(log) ==
    [kind |-> "empty", log |-> log]

Fail(error, log) ==
    [kind |-> "error", error |-> error, log |-> log]

IsAction(r) ==
    r.kind = "next" /\ r.route.type = "action"

IsNo(r) ==
    r.kind = "next" /\ r.route.type = "no"

\* r, with the calls of log made before its own.
Logged(log, r) ==
    [r EXCEPT !.log = log \o r.log]

RECURSIVE getRoute(_)

getRouteNo(reason) ==
    Emit(noRoute(Default(reason, Str(defaultReason)).s), <<>>)

getRouteDoEager(handler, score) ==
    Emit(actionRoute(<<handler>>, Default(score, RatOne)), <<handler>>)

getRouteDo(handler, score) ==
    Emit(actionRoute(<<handler>>, Default(score, RatOne)), <<>>)

RECURSIVE firstFrom(_, _)
firstFrom(list, i) ==
    IF i > Len(list)
    THEN Emit(FirstDefault, <<>>)
    ELSE LET r == getRoute(list[i])
         IN  IF r.kind = "error" \/ IsAction(r)
             THEN r
             ELSE Logged(r.log, firstFrom(list, i + 1))

getRouteFirst(list) ==
    firstFrom(list, 1)

RECURSIVE bestFrom(_, _, _)
bestFrom(list, i, best) ==
    IF i > Len(list) \/ ~Less(best.score, RatOne)
    THEN IF Less(RatZero, best.score) THEN Emit(best, <<>>) ELSE Empty(<<>>)
    ELSE LET r == getRoute(list[i])
         IN  IF r.kind = "error"
             THEN r
             ELSE Logged(r.log,
                         bestFrom(list, i + 1,
                                  IF IsAction(r) /\ Less(best.score, r.route.score)
                                  THEN r.route ELSE best))

getRouteBest(list) ==
    bestFrom(list, 1, actionRoute(<<>>, RatZero))

getRouteIfMatchesThenFirst(matcher, returns, at, thenRouter, elseRouter) ==
    LET matchResult == IF Throws(returns) THEN returns ELSE normalizeMatchResult(returns)
        r == getRoute(thenRouter)
    IN  IF Throws(matchResult)
        THEN Fail(matchResult.error, <<matcher>>)
        ELSE IF isMatch(matchResult)
        THEN Logged(<<matcher, Fn("getThenRouter", at)>>,
                    IF IsAction(r)
                    THEN [r EXCEPT !.route = routeWithCombinedScore(r.route, matchResult.score).route]
                    ELSE r)
        ELSE IF elseRouter = Undefined
        THEN Logged(<<matcher, Fn("getThenRouter", at)>> \o r.log, getRouteNo(matchResult.reason))
        ELSE Logged(<<matcher, Fn("getThenRouter", at)>> \o r.log \o <<Fn("getElseRouter", at)>>,
                    getRoute(elseRouter))

\* returns: what the matcher returned for the routable, or what it threw.
getRouteIfMatches(matcher, returns, at, thenRouter, elseRouter) ==
    LET matchResult == IF Throws(returns) THEN returns ELSE normalizeMatchResult(returns)
    IN  IF Throws(matchResult)
        THEN Fail(matchResult.error, <<matcher>>)
        ELSE IF isMatch(matchResult)
        THEN LET r == getRoute(thenRouter)
             IN  Logged(<<matcher, Fn("getThenRouter", at)>>,
                        IF IsAction(r)
                        THEN [r EXCEPT !.route = routeWithCombinedScore(r.route, matchResult.score).route]
                        ELSE r)
        ELSE IF elseRouter = Undefined
        THEN Logged(<<matcher>>, getRouteNo(matchResult.reason))
        ELSE Logged(<<matcher, Fn("getElseRouter", at)>>, getRoute(elseRouter))

getRouteIfTrue(predicate, returns, at, thenRouter, elseRouter) ==
    getRouteIfMatches(predicate, predicateToMatcher(returns), at, thenRouter, elseRouter)

getRouteBeforeRescored(beforeHandler, inner) ==
    LET r == getRoute(inner)
    IN  IF IsAction(r)
        THEN [r EXCEPT !.route = actionRoute(<<beforeHandler>> \o r.route.action, RatOne)]
        ELSE r

getRouteBefore(beforeHandler, inner) ==
    LET r == getRoute(inner)
    IN  IF IsAction(r)
        THEN [r EXCEPT !.route.action = <<beforeHandler>> \o r.route.action]
        ELSE r

getRouteAfter(afterHandler, inner) ==
    LET r == getRoute(inner)
    IN  IF IsAction(r)
        THEN [r EXCEPT !.route.action = r.route.action \o <<afterHandler>>]
        ELSE r

\* The call getDefaultRouter(routable, reason), as it is recorded.
GetDefaultRouter(at, reason) ==
    [fn |-> "getDefaultRouter", at |-> at, reason |-> reason]

getRouteDefaultEager(at, mainRouter, defaultRouter) ==
    LET r == getRoute(mainRouter)
    IN  IF IsNo(r)
        THEN Logged(r.log \o <<GetDefaultRouter(at, r.route.reason)>>, getRoute(defaultRouter))
        ELSE Logged(r.log \o <<GetDefaultRouter(at, defaultReason)>>,
                    [r EXCEPT !.log = getRoute(defaultRouter).log])

getRouteDefault(at, mainRouter, defaultRouter) ==
    LET r == getRoute(mainRouter)
    IN  IF IsNo(r)
        THEN Logged(r.log \o <<GetDefaultRouter(at, r.route.reason)>>, getRoute(defaultRouter))
        ELSE r

\* The names every object inherits from Object.prototype (two of them).
ObjectPrototype == {"constructor", "toString"}

Inherited == [t |-> "function"]

\* mapKeyToRouter[key], the mapping being an ordinary object: an own property,
\* else an inherited one, else undefined.
Lookup(mapKeyToRouter, key) ==
    IF key \in DOMAIN mapKeyToRouter THEN mapKeyToRouter[key]
    ELSE IF key \in ObjectPrototype THEN Inherited
    ELSE Undefined

\* What is found under an inherited name has no getRoute$: calling it throws.
getRouteSwitch(at, key, mapKeyToRouter) ==
    LET found == Lookup(mapKeyToRouter, key)
    IN  Logged(<<Fn("getKey", at)>>,
               IF found = Undefined
               THEN Emit(noRoute(defaultReason), <<>>)
               ELSE IF found = Inherited
               THEN Fail(TypeError, <<>>)
               ELSE getRoute(found))

\* router.getRoute$(routable), subscribed.
getRoute(r) ==
    CASE r.c = "do"        -> getRouteDo(r.handler, r.score)
      [] r.c = "no"        -> getRouteNo(r.reason)
      [] r.c = "first"     -> getRouteFirst(r.list)
      [] r.c = "best"      -> getRouteBest(r.list)
      [] r.c = "ifMatches" -> getRouteIfMatches(r.matcher, r.returns, r.at, r.thenRouter, r.elseRouter)
      [] r.c = "ifTrue"    -> getRouteIfTrue(r.matcher, r.returns, r.at, r.thenRouter, r.elseRouter)
      [] r.c = "before"    -> getRouteBefore(r.handler, r.inner)
      [] r.c = "after"     -> getRouteAfter(r.handler, r.inner)
      [] r.c = "default"   -> getRouteDefault(r.at, r.mainRouter, r.defaultRouter)
      [] r.c = "switch"    -> getRouteSwitch(r.at, r.key, r.mapKeyToRouter)

\* The routers the application starts from.
Leaves ==
    { Do(0, Undefined), Do(0, Rat(1, 2)), No(0, Undefined) }

ChainOff ==
    /\ op = Off /\ routers = <<>> /\ fromIdx = 1 /\ fromDone = TRUE /\ syncRouter = 0
    /\ status = <<>> /\ emitted = <<>> /\ active = 0 /\ buffer = <<>>
    /\ hasCompleted = TRUE /\ isEmpty = TRUE /\ pipe = Off /\ bestRoute = minRoute
    /\ arrived = <<>> /\ observer = NewObserver

InitRoute ==
    /\ router \in Leaves
    /\ resolution = Off
    /\ calls = <<>>
    /\ delivered = 0
    /\ routePc = "start"
    /\ ChainOff /\ ScoreOff /\ NormOff /\ TwoOff /\ ScoredOff /\ MultiOff /\ TopOff /\ MatchOff /\ RunOff /\ LegacyOff

\* new Router(...) around the router built so far.
Wrapping(wrapped) ==
    /\ routePc = "start"
    /\ router.at < MaxWrap
    /\ router' = wrapped
    /\ UNCHANGED <<resolution, calls, delivered, routePc, chainVars, scoreVars, normVars, twoVars, scoredVars, multiVars, topVars, matchVars, runVars, legacyVars>>

WrapIfMatches ==
    \E returns \in MatcherReturns :
        \/ \E elseRouter \in {Undefined, Do(router.at + 1, Undefined)} :
               Wrapping(IfMatches(router.at + 1, returns, router, elseRouter))
        \/ Wrapping(IfMatches(router.at + 1, returns, Do(router.at + 1, Undefined), router))

WrapIfTrue ==
    \E returns \in PredicateReturns :
        Wrapping(IfTrue(router.at + 1, returns, router, Undefined))

WrapBefore ==
    Wrapping(Before(router.at + 1, router))

WrapAfter ==
    Wrapping(After(router.at + 1, router))

WrapDefault ==
    \/ Wrapping(DefaultTo(router.at + 1, router, Do(router.at + 1, Undefined)))
    \/ Wrapping(DefaultTo(router.at + 1, No(router.at + 1, Str("main")), router))

\* The mapping is an object literal holding the router built so far and one
\* more; no router is mapped to "b" or to "constructor".
WrapSwitch ==
    \E key \in {"a", "b", "c", "constructor"} :
        Wrapping(Switch(router.at + 1, key,
                        [a |-> router,
                         c |-> IfTrue(router.at + 1, Bool(TRUE),
                                      Do(router.at + 1, Undefined), Undefined)]))

WrapFirst ==
    \/ Wrapping(First(router.at + 1, <<router, Do(router.at + 1, Undefined)>>))
    \/ Wrapping(First(router.at + 1, <<No(router.at + 1, Undefined), router>>))

WrapBest ==
    \/ Wrapping(Best(router.at + 1, <<router, Do(router.at + 1, Rat(1, 2))>>))
    \/ Wrapping(Best(router.at + 1, <<Do(router.at + 1, Rat(1, 2)), router>>))

\* Subscribing router.getRoute$(routable).
Resolve ==
    /\ routePc = "start"
    /\ LET r == getRoute(router)
       IN  /\ resolution' = [k \in DOMAIN r \ {"log"} |-> r[k]]
           /\ calls' = r.log
    /\ routePc' = "resolved"
    /\ UNCHANGED <<router, delivered, chainVars, scoreVars, normVars, twoVars, scoredVars, multiVars, topVars, matchVars, runVars, legacyVars>>

\* The roles under which a handler becomes (part of) a route's action.
HandlerRoles == {"handler", "beforeHandler", "afterHandler"}

IsHandler(f) ==
    f.fn \in HandlerRoles

HandlersCalled == SelectSeq(calls, IsHandler)

\* The handlers that calling action() starts at once: the first of the chain that
\* before and after built; each of the others is started by flatMap when the one
\* before it delivers.
InvokeAll(action) ==
    action

Invoke(action) ==
    <<action[1]>>

\* The caller invokes the action of the route it got, as Router.route$ does; a
\* no-route is answered with false at once.
Act ==
    /\ routePc = "resolved"
    /\ resolution.kind = "next"
    /\ IF resolution.route.type = "action"
       THEN /\ calls' = calls \o Invoke(resolution.route.action)
            /\ routePc' = "acting"
       ELSE /\ calls' = calls
            /\ routePc' = "acted"
    /\ UNCHANGED <<router, resolution, delivered, chainVars, scoreVars, normVars, twoVars, scoredVars, multiVars, topVars, matchVars, runVars, legacyVars>>

\* The handler that was called last and has not delivered yet delivers its result:
\* flatMap starts the next handler of the action, or the action has delivered and
\* Router.route$ emits true.
Deliver ==
    /\ routePc = "acting"
    /\ delivered < Len(HandlersCalled)
    /\ delivered' = delivered + 1
    /\ IF Len(HandlersCalled) < Len(resolution.route.action)
       THEN /\ calls' = Append(calls, resolution.route.action[Len(HandlersCalled) + 1])
            /\ routePc' = routePc
       ELSE /\ calls' = calls
            /\ routePc' = IF delivered' = Len(resolution.route.action)
                          THEN "acted" ELSE routePc
    /\ UNCHANGED <<router, resolution, chainVars, scoreVars, normVars, twoVars, scoredVars, multiVars, topVars, matchVars, runVars, legacyVars>>

NextRoute ==
    \/ WrapIfMatches
    \/ WrapIfTrue
    \/ WrapBefore
    \/ WrapAfter
    \/ WrapDefault
    \/ WrapSwitch
    \/ WrapFirst
    \/ WrapBest
    \/ Resolve
    \/ Act
    \/ Deliver

SpecRoute == InitRoute /\ [][NextRoute]_vars

\* ---------------------------------------------------------------------------
\* Routing and acting.
\* ---------------------------------------------------------------------------

\* C12: resolving a route through the combinators (getRouteDo$, first, best,
\* ifMatches, ifTrue, before, after, default, switch) calls no handler that is
\* wrapped as an action: when the route has been resolved no handler has run, and
\* once the caller has invoked route.action the handlers that ran are exactly those
\* of the resolved route's action, in its order.
C12_ResolveDoesNotAct ==
    /\ routePc = "resolved" => HandlersCalled = <<>>
    /\ routePc = "acted" =>
           HandlersCalled = IF resolution.route.type = "action"
                            THEN resolution.route.action
                            ELSE <<>>

C12_Witness == routePc = "resolved" /\ resolution.kind = "next" /\ resolution.route.type = "action" /\ Len(resolution.route.action) = 2 /\ Len(calls) >= 2 /\ HandlersCalled = <<>>

\* ---------------------------------------------------------------------------
\* Conditional chains.
\* ---------------------------------------------------------------------------

IsConditional(r) ==
    r.c \in {"ifMatches", "ifTrue"}

\* What the matcher of a conditional router normalizes to.
MatchResultOf(r) ==
    LET returns == IF r.c = "ifTrue" THEN predicateToMatcher(r.returns) ELSE r.returns
    IN  IF Throws(returns) THEN returns ELSE normalizeMatchResult(returns)

Fails(r) ==
    IsConditional(r) /\ ~Throws(MatchResultOf(r)) /\ ~isMatch(MatchResultOf(r))

Passes(r) ==
    IsConditional(r) /\ ~Throws(MatchResultOf(r)) /\ isMatch(MatchResultOf(r))

\* Every function of the application a router holds.
RECURSIVE Callables(_)
Callables(r) ==
    CASE r.c = "do"      -> {r.handler}
      [] r.c = "no"      -> {}
      [] r.c \in {"first", "best"} ->
             UNION {Callables(r.list[i]) : i \in DOMAIN r.list}
      [] IsConditional(r) ->
             {r.matcher, Fn("getThenRouter", r.at), Fn("getElseRouter", r.at)}
                 \cup Callables(r.thenRouter)
                 \cup (IF r.elseRouter = Undefined THEN {} ELSE Callables(r.elseRouter))
      [] r.c \in {"before", "after"} -> {r.handler} \cup Callables(r.inner)
      [] r.c = "default" ->
             {Fn("getDefaultRouter", r.at)} \cup Callables(r.mainRouter)
                 \cup Callables(r.defaultRouter)
      [] r.c = "switch"  ->
             {Fn("getKey", r.at)}
                 \cup UNION {Callables(r.mapKeyToRouter[k]) : k \in DOMAIN r.mapKeyToRouter}

\* The then-branch of r: getThenRouter and everything under the router it returns.
ThenBranch(r) ==
    {Fn("getThenRouter", r.at)} \cup Callables(r.thenRouter)

NoneCalled(fns) ==
    \A i \in DOMAIN calls : Fn(calls[i].fn, calls[i].at) \notin fns

\* The route a router yields when subscribed on its own.
RouteOf(r) ==
    LET res == getRoute(r)
    IN  [k \in DOMAIN res \ {"log"} |-> res[k]]

\* C13: when the matcher of a conditional router fails, neither getThenRouter nor
\* anything under the then-router (later matchers, the terminal handler) is called,
\* during resolution or when the caller acts on the result; the result is the route
\* of the else-router, which by default is a no-route carrying the failure's reason.
\* The same holds for the second matcher of a chain whose first matcher succeeded.
C13_FailureShortCircuits ==
    routePc \in {"resolved", "acted"} =>
        /\ Fails(router) =>
               /\ NoneCalled(ThenBranch(router))
               /\ calls[1] = router.matcher
               /\ IF router.elseRouter = Undefined
                  THEN /\ resolution = [kind |-> "next",
                                        route |-> noRoute(MatchResultOf(router).reason.s)]
                       /\ calls = <<router.matcher>>
                  ELSE /\ resolution = RouteOf(router.elseRouter)
                       /\ calls[2] = Fn("getElseRouter", router.at)
        /\ (Passes(router) /\ Fails(router.thenRouter)) =>
               /\ NoneCalled(ThenBranch(router.thenRouter))
               /\ SubSeq(calls, 1, 3) = <<router.matcher, Fn("getThenRouter", router.at),
                                          router.thenRouter.matcher>>
               /\ router.thenRouter.elseRouter = Undefined =>
                      /\ resolution = [kind |-> "next",
                                       route |-> noRoute(MatchResultOf(router.thenRouter).reason.s)]
                      /\ Len(calls) = 3

C13_Witness == routePc = "acted" /\ router.c = "ifMatches" /\ Passes(router) /\ Fails(router.thenRouter) /\ router.thenRouter.c = "ifMatches" /\ router.thenRouter.thenRouter.c = "do" /\ router.thenRouter.elseRouter = Undefined /\ resolution.route = noRoute("why") /\ Len(calls) = 3

\* The score a matcher or predicate supplied with its result (1 when it gave none).
SuppliedScore(r) ==
    IF TypeOf(r.returns) = "object" THEN Default(Get(r.returns, "score"), RatOne) ELSE RatOne

\* C14: when the matcher of getRouteIfMatches$ succeeds with score m and the
\* then-router yields an actionable route of score t, the route yielded is that route
\* with score m * t; so two nested matchers with scores s1 and s2 over a terminal
\* handler (route score 1) yield score s1 * s2.
C14_ScoreProduct ==
    (routePc = "resolved" /\ router.c = "ifMatches" /\ Passes(router)) =>
        /\ IsAction(RouteOf(router.thenRouter)) =>
               /\ resolution.kind = "next"
               /\ resolution.route.type = "action"
               /\ resolution.route.action = RouteOf(router.thenRouter).route.action
               /\ resolution.route.score =
                      Times(SuppliedScore(router), RouteOf(router.thenRouter).route.score)
        /\ (router.thenRouter.c = "ifMatches" /\ Passes(router.thenRouter)
                /\ router.thenRouter.thenRouter = Do(0, Undefined)) =>
               resolution.route.score =
                   Times(SuppliedScore(router), SuppliedScore(router.thenRouter))

C14_Witness == routePc = "resolved" /\ router.c = "ifMatches" /\ router.thenRouter.c = "ifMatches" /\ router.thenRouter.thenRouter = Do(0, Undefined) /\ SuppliedScore(router) = Rat(1, 2) /\ SuppliedScore(router.thenRouter) = Rat(4, 5) /\ resolution.route.type = "action" /\ resolution.route.score = Rat(2, 5)

MaxRecombine == 2

\* The scores a caller, a handler's registration or a matcher may supply.
AnyScores ==
    { Rat(-1, 2), RatZero, Rat(1, 4), Rat(1, 2), Rat(4, 5), RatOne, Rat(3, 2) }

InitScore ==
    /\ heap = <<>>
    /\ argRoute = 0
    /\ argScore = Off
    /\ before = Off
    /\ retRoute = 0
    /\ scorePc = "start"
    /\ ChainOff /\ NormOff /\ RouteOff /\ TwoOff /\ ScoredOff /\ MultiOff /\ TopOff /\ MatchOff /\ RunOff /\ LegacyOff

\* Router.actionRoute(action, score), score possibly omitted.
ActionRoute ==
    /\ scorePc = "start"
    /\ \E score \in AnyScores \cup {Undefined} :
           /\ heap' = <<actionRoute("action", Default(score, RatOne))>>
           /\ argScore' = score
    /\ retRoute' = 1
    /\ scorePc' = "made"
    /\ UNCHANGED <<argRoute, before, chainVars, normVars, routeVars, twoVars, scoredVars, multiVars, topVars, matchVars, runVars, legacyVars>>

\* Router.getRouteDo$(handler, score)(routable), subscribed.
GetRouteDo ==
    /\ scorePc = "start"
    /\ \E score \in AnyScores \cup {Undefined} :
           /\ heap' = <<getRouteDo(Fn("handler", 0), score).route>>
           /\ argScore' = score
    /\ retRoute' = 1
    /\ scorePc' = "made"
    /\ UNCHANGED <<argRoute, before, chainVars, normVars, routeVars, twoVars, scoredVars, multiVars, topVars, matchVars, runVars, legacyVars>>

\* Router.routeWithCombinedScore(route, newScore), on the route last returned.
Recombine ==
    /\ scorePc \in {"made", "recombined"}
    /\ Len(heap) <= MaxRecombine
    /\ \E newScore \in AnyScores :
           LET r == routeWithCombinedScore(heap[retRoute], newScore)
           IN  /\ argScore' = newScore
               /\ IF r.same
                  THEN /\ heap' = [heap EXCEPT ![retRoute] = r.route]
                       /\ retRoute' = retRoute
                  ELSE /\ heap' = Append(heap, r.route)
                       /\ retRoute' = Len(heap) + 1
    /\ argRoute' = retRoute
    /\ before' = heap[retRoute]
    /\ scorePc' = "recombined"
    /\ UNCHANGED <<chainVars, normVars, routeVars, twoVars, scoredVars, multiVars, topVars, matchVars, runVars, legacyVars>>

NextScore ==
    \/ ActionRoute
    \/ GetRouteDo
    \/ Recombine

SpecScore == InitScore /\ [][NextScore]_vars

\* C16 as stated: recombining an actionable route with its own score, for a score in
\* [0,1], returns a route equal to the original in every field, score included.
C16_Idempotent ==
    (scorePc = "recombined" /\ argScore = before.score /\ InUnitInterval(before.score)) =>
        heap[retRoute] = before

\* C16, amended: recombining an actionable route with its own score s in [0,1]
\* returns a route with the original's type and action and the score s * s, which is
\* equal to the original in every field exactly when s is 0 or 1; recombining with
\* the score 1 returns the original route itself.
C16_OwnScoreSquares ==
    scorePc = "recombined" =>
        /\ (argScore = before.score /\ InUnitInterval(before.score)) =>
               /\ heap[retRoute].type = before.type
               /\ heap[retRoute].action = before.action
               /\ heap[retRoute].score = Times(before.score, before.score)
               /\ heap[retRoute] = before <=> before.score \in {RatZero, RatOne}
        /\ argScore = RatOne => (retRoute = argRoute /\ heap[retRoute] = before)

C16_Witness == scorePc = "recombined" /\ argRoute = 1 /\ before.score = Rat(1, 2) /\ argScore = Rat(1, 2) /\ retRoute = 2 /\ heap[2].score = Rat(1, 4)

\* C17: routeWithCombinedScore returns the very object it was given exactly when the
\* recombined score equals the route's score; otherwise it returns a new object with
\* the recombined score and the same type and action; in both cases the fields of the
\* route it was given are as they were before the call.
C17_SameOrCopy ==
    scorePc = "recombined" =>
        /\ heap[argRoute] = before
        /\ retRoute = argRoute <=> combineScore(argScore, before.score) = before.score
        /\ retRoute # argRoute =>
               /\ retRoute = Len(heap)
               /\ heap[retRoute] = [before EXCEPT !.score = combineScore(argScore, before.score)]

C17_Witness == scorePc = "recombined" /\ Len(heap) = 2 /\ heap[1].score = Rat(1, 2) /\ heap[2].score = Rat(1, 4) /\ argRoute = 2 /\ retRoute = 2 /\ argScore = RatOne /\ before = heap[2]

\* C18 as stated: every actionable route built by Router.actionRoute or
\* getRouteDo$, or rescored by routeWithCombinedScore, has a score in [0,1].
C18_ScoresInRange ==
    \A i \in DOMAIN heap : InUnitInterval(heap[i].score)

\* ---------------------------------------------------------------------------
\* Normalization of what a matcher returns (specification SpecNorm): the matcher
\* is applied to the routable, then its response goes through
\* Router.normalizeMatchResult, as in the first two stages of getRouteIfMatches$.
\* ---------------------------------------------------------------------------

Routables == {Str("x"), Str("y")}

\* Responses that are not objects.
RawResponses ==
    { Undefined, Null, Bool(TRUE), Bool(FALSE), RatZero, Rat(1, 2), Str(""), Str("v") }

\* The values an object response may hold in each of its fields.
ReasonFields == { Str("why"), Str(""), RatZero, RatOne }

ValueFields == { Undefined, Null, Bool(FALSE), Bool(TRUE), Str("v") }

ScoreFields == { RatZero, Rat(1, 2), Rat(3, 2), Str("high") }

\* An object literal holding the listed fields; Absent leaves a field out.
Absent == [t |-> "absent"]

ObjectLiteral(reason, value, score) ==
    LET present == { k \in {"reason", "value", "score"} :
                       \/ k = "reason" /\ reason # Absent
                       \/ k = "value" /\ value # Absent
                       \/ k = "score" /\ score # Absent }
    IN  Obj([k \in present |-> IF k = "reason" THEN reason
                               ELSE IF k = "value" THEN value ELSE score])

ObjectResponses ==
    { ObjectLiteral(reason, value, score) :
          reason \in ReasonFields \cup {Absent},
          value \in ValueFields \cup {Absent},
          score \in ScoreFields \cup {Absent} }

Responses == RawResponses \cup ObjectResponses

InitNorm ==
    /\ routable \in Routables
    /\ predicateResult = NoPredicate
    /\ normInput = Off
    /\ normalized = Off
    /\ normPc = "start"
    /\ ChainOff /\ ScoreOff /\ RouteOff /\ TwoOff /\ ScoredOff /\ MultiOff /\ TopOff /\ MatchOff /\ RunOff /\ LegacyOff

\* matcher(routable) delivers its response.
Respond ==
    /\ normPc = "start"
    /\ normInput' \in Responses
    /\ normPc' = "returned"
    /\ UNCHANGED <<routable, predicateResult, normalized, chainVars, scoreVars, routeVars, twoVars, scoredVars, multiVars, topVars, matchVars, runVars, legacyVars>>

\* Router.predicateToMatcher(predicate)(routable) delivers its response, or fails.
PredicateResponds ==
    /\ normPc = "start"
    /\ predicateResult' \in Responses
    /\ normInput' = predicateToMatcher(predicateResult')
    /\ normPc' = IF Throws(normInput') THEN "failed" ELSE "returned"
    /\ UNCHANGED <<routable, normalized, chainVars, scoreVars, routeVars, twoVars, scoredVars, multiVars, topVars, matchVars, runVars, legacyVars>>

\* .map(response => Router.normalizeMatchResult(response))
Normalize ==
    /\ normPc = "returned"
    /\ normalized' = normalizeMatchResult(normInput)
    /\ normPc' = "done"
    /\ UNCHANGED <<routable, predicateResult, normInput, chainVars, scoreVars, routeVars, twoVars, scoredVars, multiVars, topVars, matchVars, runVars, legacyVars>>

NextNorm ==
    \/ Respond
    \/ PredicateResponds
    \/ Normalize

SpecNorm == InitNorm /\ [][NextNorm]_vars

\* A response shaped as a Match: an object with a value field, no reason, and a
\* score that is a number or is left out.
IsMatchShaped(v) ==
    /\ v.t = "object"
    /\ "value" \in DOMAIN v.f
    /\ "reason" \notin DOMAIN v.f
    /\ "score" \in DOMAIN v.f => v.f.score.t = "number"

IsNothing(v) ==
    v \in {Undefined, Null, Bool(FALSE)}

\* C19 as stated: a response that is undefined, null or false, or a Match-shaped
\* object whose value is undefined, null or false, normalizes to a failure (a reason
\* and no value); for the raw responses the reason is the default reason 'none'.
C19_NothingFails ==
    normPc = "done" =>
        /\ IsNothing(normInput) => normalized = NoMatch(Str(defaultReason))
        /\ (IsMatchShaped(normInput) /\ IsNothing(normInput.f.value)) =>
               normalized.t = "nomatch"

ExposesReason(v) ==
    v.t = "object" /\ "reason" \in DOMAIN v.f

\* C21 as stated: an object response that exposes a reason normalizes to the failure
\* carrying that reason when the reason is a string, the empty string included, and
\* raises an error when the reason is not a string, falsy values such as 0 included;
\* it never normalizes to a success.
C21_ReasonFailsOrThrows ==
    (normPc = "done" /\ ExposesReason(normInput)) =>
        IF normInput.f.reason.t = "string"
        THEN normalized = NoMatch(normInput.f.reason)
        ELSE normalized = Throw(NoMatchReasonError)

\* An object response that normalizeMatchResult reads as a Match: no reason that
\* counts, and a defined value.
ReadAsMatch(v) ==
    v.t = "object" /\ ~Truthy(Get(v, "reason")) /\ Get(v, "value") # Undefined

\* C22 as stated: every success returned by normalizeMatchResult has a score in
\* (0,1]; a Match's numeric score is kept, an omitted score becomes 1, and a score
\* that is given and is not a number raises an error.
C22_MatchScoreInRange ==
    normPc = "done" =>
        /\ normalized.t = "match" =>
               (InUnitInterval(normalized.score) /\ normalized.score # RatZero)
        /\ ReadAsMatch(normInput) =>
               LET score == Get(normInput, "score")
               IN  IF score = Undefined THEN normalized.t = "match" /\ normalized.score = RatOne
                   ELSE IF score.t = "number"
                   THEN normalized.t = "match" /\ normalized.score = score
                   ELSE normalized = Throw(MatchScoreError)

\* C23: an object response without a reason field and without a defined value (an
\* object carrying only a score, say) normalizes as a bare value: a success whose
\* value is the whole object and whose score is 1, whatever score the object holds.
C23_BareObject ==
    (normPc = "done" /\ normInput.t = "object" /\ "reason" \notin DOMAIN normInput.f
         /\ Get(normInput, "value") = Undefined) =>
        normalized = Match(normInput, RatOne)

C23_Witness == normPc = "done" /\ normInput = Obj([score |-> Rat(1, 2)]) /\ normalized.t = "match" /\ normalized.value = Obj([score |-> Rat(1, 2)]) /\ normalized.score = RatOne

\* The results a predicate may return: true, false, a Match whose value is true or
\* false, or a failure carrying a reason (a string).
IsPredicateResult(v) ==
    \/ v \in {Bool(TRUE), Bool(FALSE)}
    \/ /\ v.t = "object"
       /\ \/ Get(v, "value") \in {Bool(TRUE), Bool(FALSE)}
          \/ Get(v, "reason").t = "string"

\* C24 as stated: predicateToMatcher raises no error for a result a predicate may
\* return, and raises one for every other result (left aside: objects whose reason
\* is not a string, which are no well-formed failure).
C24_PredicateErrors ==
    (normPc \in {"returned", "failed", "done"} /\ predicateResult # NoPredicate) =>
        /\ IsPredicateResult(predicateResult) => normPc # "failed"
        /\ (~IsPredicateResult(predicateResult) /\ ~ExposesReason(predicateResult)) =>
               normPc = "failed"

\* ---------------------------------------------------------------------------
\* before, after, default, switch.
\* ---------------------------------------------------------------------------

\* C25: getRouteBefore$ and getRouteAfter$ yield a no-route exactly when the wrapped
\* router yields one, and then the very same no-route; they yield an actionable
\* route exactly when the wrapped router yields one, and then with the wrapped
\* route's score.
C25_WrapperKeepsRoute ==
    (routePc = "resolved" /\ router.c \in {"before", "after"}) =>
        LET wrapped == RouteOf(router.inner)
        IN  /\ IsNo(resolution) <=> IsNo(wrapped)
            /\ IsNo(wrapped) => resolution = wrapped
            /\ IsAction(resolution) <=> IsAction(wrapped)
            /\ IsAction(wrapped) => resolution.route.score = wrapped.route.score

C25_Witness == routePc = "resolved" /\ router.c = "before" /\ router.inner.c = "ifMatches" /\ resolution.kind = "next" /\ resolution.route.type = "action" /\ resolution.route.score = Rat(1, 2) /\ Len(resolution.route.action) = 2

\* C26: when the action of a route from getRouteBefore$ is invoked, beforeHandler is
\* called first and the original action is started only after beforeHandler has
\* delivered; when the action of a route from getRouteAfter$ is invoked, the original
\* action runs first and afterHandler is called only after every handler of the
\* original action has delivered, and it is the last to be called.
C26_WrapperOrder ==
    (routePc \in {"acting", "acted"} /\ resolution.route.type = "action") =>
        /\ router.c = "before" =>
               /\ HandlersCalled[1] = router.handler
               /\ Len(HandlersCalled) >= 2 => delivered >= 1
               /\ \A i \in 2..Len(HandlersCalled) :
                      HandlersCalled[i] = RouteOf(router.inner).route.action[i - 1]
        /\ router.c = "after" =>
               \A i \in DOMAIN HandlersCalled :
                   IF i <= Len(RouteOf(router.inner).route.action)
                   THEN HandlersCalled[i] = RouteOf(router.inner).route.action[i]
                   ELSE /\ HandlersCalled[i] = router.handler
                        /\ i = Len(resolution.route.action)
                        /\ delivered >= i - 1

C26_Witness == routePc = "acting" /\ router.c = "after" /\ router.inner.c = "before" /\ Len(resolution.route.action) = 3 /\ Len(HandlersCalled) = 3 /\ HandlersCalled[3] = router.handler /\ delivered = 2

\* The calls of the fallback factory of the outermost router.
DefaultFactoryCalls ==
    {i \in DOMAIN calls : calls[i].fn = "getDefaultRouter" /\ calls[i].at = router.at}

\* C27: when the main router of getRouteDefault$ yields an actionable route, that
\* route is returned as it is and the fallback factory is not called; when it yields
\* a no-route with reason r, the factory is called exactly once, with r, and the
\* result is that of the fallback router, as it is (no score is combined).
C27_DefaultFallback ==
    (routePc = "resolved" /\ router.c = "default") =>
        LET main == RouteOf(router.mainRouter)
        IN  /\ IsAction(main) =>
                   /\ resolution = main
                   /\ DefaultFactoryCalls = {}
            /\ IsNo(main) =>
                   /\ Cardinality(DefaultFactoryCalls) = 1
                   /\ \A i \in DefaultFactoryCalls : calls[i].reason = main.route.reason
                   /\ resolution = RouteOf(router.defaultRouter)

C27_Witness == routePc = "resolved" /\ router.c = "default" /\ router.mainRouter = No(router.at, Str("main")) /\ router.defaultRouter.c = "ifMatches" /\ calls[1] = GetDefaultRouter(router.at, "main") /\ resolution.kind = "next" /\ resolution.route.type = "action" /\ resolution.route.score = Rat(1, 2)

\* C28 as stated: getRouteSwitch$ invokes at most one mapped router.  When the key
\* is not in the mapping it yields a no-route and nothing under any mapped router is
\* called; when it is, the result and the calls are those of the router mapped to
\* the key, and nothing under any other mapped router is called, then or when the
\* caller acts.
C28_SwitchOne ==
    (routePc \in {"resolved", "acting", "acted"} /\ router.c = "switch") =>
        LET mapped == router.mapKeyToRouter
        IN  /\ calls[1] = Fn("getKey", router.at)
            /\ \A k \in DOMAIN mapped : k # router.key => NoneCalled(Callables(mapped[k]))
            /\ router.key \notin DOMAIN mapped =>
                   /\ IsNo(resolution)
                   /\ Len(calls) = 1
            /\ router.key \in DOMAIN mapped =>
                   /\ resolution = RouteOf(mapped[router.key])
                   /\ routePc = "resolved" =>
                          calls = <<Fn("getKey", router.at)>> \o getRoute(mapped[router.key]).log

\* ---------------------------------------------------------------------------
\* Termination of a resolution of first or best (specification SpecFair).
\* The synchronous part of a subscription runs to its end, and a router that was
\* subscribed and not unsubscribed delivers its routes and completes, unless it
\* fails.
\* ---------------------------------------------------------------------------

FromStep ==
    \/ FromSkip
    \/ FromTakeWhileStop
    \/ FromSubscribe
    \/ FromBuffer
    \/ FromComplete

RouterSettles(k) ==
    \/ \E s \in CandScores \cup {-1} :
          RouterNext(k, IF s = -1 THEN noRoute(defaultReason)
                                  ELSE actionRoute(<<k, Len(emitted[k]) + 1>>, s))
    \/ RouterComplete(k)

SpecFair ==
    /\ Spec
    /\ WF_vars(FromStep)
    /\ \A k \in 1 .. MaxRouters : WF_vars(RouterSettles(k))

-----------------------------------------------------------------------------
\* Two resolutions of one router (specification SpecTwo)
\*
\* A router built by first or best is resolved twice, each time for its own
\* routable; the listed routers answer a resolution one after the other,
\* asynchronously, so the steps of the two resolutions interleave in any order.

\* Longest router list given to the combinator of a router resolved twice.
MaxList == 2

Resolutions == {1, 2}

\* getRouteBest$: let bestRoute = Router.minRoute, in the subscribe function; the
\* place in Observable.from(routers) belongs to the subscription of that source.
NewCell == [at |-> 1, best |-> minRoute]

\* Variant: the state of the chain kept on the router, one cell for all resolutions.
CellShared(i) == 1

\* The cell resolution i works on: every subscription builds its own.
Cell(i) == i

\* .defaultIfEmpty: no route has got through the filter.
NonePassed(cs, cell) == \A j \in 1 .. cell.at - 1 : j \in DOMAIN cs => ~PassesFilter(cs[j])

\* One step of the chain of getRouteFirst$ on its list of answers cs: the router
\* at the cell's place answers, or the list is exhausted.  [cell, obs]
TryNextFirst(cs, cell, o) ==
    IF cell.at > Len(cs)
    THEN [cell |-> cell,
          obs  |-> ObserverComplete(IF NonePassed(cs, cell)
                                    THEN ObserverNext(o, FirstDefault)
                                    ELSE o)]
    ELSE LET route == cs[cell.at]
         IN  [cell |-> [cell EXCEPT !.at = @ + 1],
              obs  |-> IF PassesFilter(route) /\ TakeReached(Len(o.out) + 1)
                       THEN ObserverComplete(ObserverNext(o, route))
                       ELSE IF PassesFilter(route)
                       THEN ObserverNext(o, route)
                       ELSE o]

\* One step of the chain of getRouteBest$.  [cell, obs]
TryNextBest(cs, cell, o) ==
    IF cell.at > Len(cs) \/ ~TakeWhile(cell.best)
    THEN LET r == IF NonePassed(cs, cell)
                  THEN BestOnNext(BestDefault, cell.best, o)
                  ELSE [best |-> cell.best, obs |-> o]
         IN  [cell |-> [cell EXCEPT !.best = r.best],
              obs  |-> BestOnComplete(r.best, r.obs)]
    ELSE LET route == cs[cell.at]
             r == IF PassesFilter(route)
                  THEN BestOnNext(route, cell.best, o)
                  ELSE [best |-> cell.best, obs |-> o]
         IN  [cell |-> [at |-> cell.at + 1, best |-> r.best],
              obs  |-> r.obs]

TryNext(kind, cs, cell, o) ==
    IF kind = "first" THEN TryNextFirst(cs, cell, o) ELSE TryNextBest(cs, cell, o)

\* The answer of the k-th listed router to resolution i, by its score (-1: no route).
Yield(k, i, s) ==
    IF s = -1 THEN noRoute(defaultReason) ELSE actionRoute(<<k, i>>, s)

InitTwo ==
    /\ combinator \in {"first", "best"}
    /\ \E n \in 0 .. MaxList :
          \E f \in [Resolutions -> [1 .. n -> CandScores \cup {-1}]] :
              candidates = [i \in Resolutions |-> [k \in 1 .. n |-> Yield(k, i, f[i][k])]]
    /\ cells = <<>>
    /\ observers = <<>>
    /\ ChainOff /\ ScoreOff /\ NormOff /\ RouteOff /\ ScoredOff /\ MultiOff /\ TopOff /\ MatchOff /\ RunOff /\ LegacyOff

\* router.getRoute$(routable) is called and subscribed for resolution i.
Subscribe(i) ==
    /\ i \notin DOMAIN observers
    /\ observers' = [j \in DOMAIN observers \cup {i} |->
                        IF j = i THEN NewObserver ELSE observers[j]]
    /\ cells' = [c \in DOMAIN cells \cup {Cell(i)} |->
                    IF c = Cell(i) THEN NewCell ELSE cells[c]]
    /\ UNCHANGED <<combinator, candidates, chainVars, scoreVars, normVars, routeVars, scoredVars, multiVars, topVars, matchVars, runVars, legacyVars>>

\* The chain of resolution i takes its next step; a stopped observer has torn
\* the chain down.
Try(i) ==
    /\ i \in DOMAIN observers
    /\ observers[i].state = "open"
    /\ LET r == TryNext(combinator, candidates[i], cells[Cell(i)], observers[i])
       IN  /\ cells' = [cells EXCEPT ![Cell(i)] = r.cell]
           /\ observers' = [observers EXCEPT ![i] = r.obs]
    /\ UNCHANGED <<combinator, candidates, chainVars, scoreVars, normVars, routeVars, scoredVars, multiVars, topVars, matchVars, runVars, legacyVars>>

NextTwo ==
    \E i \in Resolutions : Subscribe(i) \/ Try(i)

SpecTwo == InitTwo /\ [][NextTwo]_vars

\* The resolution of the answers cs run alone, after n steps.  [cell, obs]
RECURSIVE Alone(_, _, _)
Alone(kind, cs, n) ==
    IF n = 0
    THEN [cell |-> NewCell, obs |-> NewObserver]
    ELSE LET p == Alone(kind, cs, n - 1)
         IN  IF p.obs.state = "open" THEN TryNext(kind, cs, p.cell, p.obs) ELSE p

\* What the resolution of the answers cs yields when run alone.
YieldsAlone(kind, cs) == Alone(kind, cs, Len(cs) + 1).obs

-----------------------------------------------------------------------------
\* C30: two resolutions of the same router built by first or best, run one
\* after the other or interleaved, each yield what they would yield when run
\* alone: at every moment the place in the list, the best route so far and the
\* observer of a resolution are those of its own run after some number of steps,
\* and a resolution that has stopped holds the result of its run alone.
C30_ResolutionsIndependent ==
    \A i \in DOMAIN observers :
        /\ i \in DOMAIN cells
        /\ \E n \in 0 .. Len(candidates[i]) + 1 :
              Alone(combinator, candidates[i], n) = [cell |-> cells[i], obs |-> observers[i]]
        /\ observers[i].state # "open" =>
              observers[i] = YieldsAlone(combinator, candidates[i])

\* Witness: both resolutions of a best router have completed, the first with the
\* route of router 1 (score 0.5, router 2 had nothing for its routable), the
\* second with the route of router 2 (score 1, after a route of score 0.5 of
\* router 1).
C30_Witness ==
    /\ combinator = "best"
    /\ DOMAIN observers = Resolutions
    /\ candidates[1] = <<actionRoute(<<1, 1>>, 5), noRoute(defaultReason)>>
    /\ candidates[2] = <<actionRoute(<<1, 2>>, 5), actionRoute(<<2, 2>>, One)>>
    /\ observers[1].state = "complete" /\ observers[1].out = <<actionRoute(<<1, 1>>, 5)>>
    /\ observers[2].state = "complete" /\ observers[2].out = <<actionRoute(<<2, 2>>, One)>>

-----------------------------------------------------------------------------
\* Scored results of the transform library (specification SpecScored)
\*
\* Scored.from is called again and again, on plain results and on the Scored
\* instances earlier calls returned.  The instances live in a heap, so that
\* "the very same instance" and "left unchanged" are statements about references.

\* Most calls of Scored.from in a behaviour.
MaxFrom == 2

\* A reference to the n-th Scored instance.
Ref(n) == [t |-> "Scored", ref |-> n]

ScoreMessage == "Score must be be > 0 and <= 1 (consider using Scored.from)"

ResultMessage == "Result cannot be null"

\* new Scored(result, score) on the heap h.  [heap, ret]
NewScored(h, result, score) ==
    LET sc == Default(score, RatOne)
    IN  IF result = Null \/ result = Undefined
        THEN [heap |-> h, ret |-> Throw(ResultMessage)]
        ELSE IF sc = RatZero \/ Less(RatOne, sc)
        THEN [heap |-> h, ret |-> Throw(ScoreMessage)]
        ELSE [heap |-> Append(h, [result |-> result, score |-> sc]),
              ret  |-> Ref(Len(h) + 1)]

\* Variant: the score taken as it is given.
normalizedScoreAsGiven(score) == Default(score, RatOne)

\* score != null && score >= 0 && score < 1 ? score : 1
normalizedScore(score) ==
    IF /\ score # Null /\ score # Undefined
       /\ ~Less(score, RatZero)
       /\ Less(score, RatOne)
    THEN score
    ELSE RatOne

\* Variant: an existing Scored is given its new score in place.
ScoredFromInPlace(h, o, score) ==
    IF o = Null \/ o = Undefined \/ score = RatZero
    THEN [heap |-> h, ret |-> Null]
    ELSE IF o.t = "Scored"
    THEN IF score = Undefined
         THEN [heap |-> h, ret |-> o]
         ELSE [heap |-> [h EXCEPT ![o.ref].score = normalizedScore(score)], ret |-> o]
    ELSE NewScored(h, o, normalizedScore(score))

\* Scored.from(o, score) on the heap h.  [heap, ret]
ScoredFrom(h, o, score) ==
    IF o = Null \/ o = Undefined \/ score = RatZero
    THEN [heap |-> h, ret |-> Null]
    ELSE IF o.t = "Scored"
    THEN IF score = Undefined
         THEN [heap |-> h, ret |-> o]
         ELSE LET sc == normalizedScore(score)
              IN  IF sc = h[o.ref].score
                  THEN [heap |-> h, ret |-> o]
                  ELSE NewScored(h, h[o.ref].result, sc)
    ELSE NewScored(h, o, normalizedScore(score))

\* Scored.unwrap(result) on the heap h.
unwrap(h, result) ==
    IF result.t = "Scored" THEN h[result.ref].result ELSE result

\* The plain results given to Scored.from.
PlainResults == { Null, Undefined, Str("Bill"), Bool(FALSE) }

\* The scores given to Scored.from; undefined stands for an omitted score.
FromScores == { Undefined, Rat(-1, 2), RatZero, Rat(1, 2), RatOne, Rat(3, 2) }

InitScored ==
    /\ scoreds = <<>>
    /\ fromArg = NoCall
    /\ fromScore = NoCall
    /\ fromBefore = <<>>
    /\ fromRet = NoCall
    /\ fromCalls = 0
    /\ ChainOff /\ ScoreOff /\ NormOff /\ RouteOff /\ TwoOff /\ MultiOff /\ TopOff /\ MatchOff /\ RunOff /\ LegacyOff

\* Scored.from(o, score)
From ==
    /\ fromCalls \in 0 .. MaxFrom - 1
    /\ \E o \in PlainResults \cup {Ref(n) : n \in DOMAIN scoreds}, score \in FromScores :
          LET r == ScoredFrom(scoreds, o, score)
          IN  /\ fromArg' = o
              /\ fromScore' = score
              /\ fromBefore' = scoreds
              /\ scoreds' = r.heap
              /\ fromRet' = r.ret
    /\ fromCalls' = fromCalls + 1
    /\ UNCHANGED <<chainVars, scoreVars, normVars, routeVars, twoVars, multiVars, topVars, matchVars, runVars, legacyVars>>

NextScored == From

SpecScored == InitScored /\ [][NextScored]_vars

\* Scored.from has been called.
FromCalled == fromCalls >= 1

\* The call returned a Scored.
ReturnedScored == fromRet.t = "Scored" /\ fromRet.ref \in DOMAIN scoreds

\* The score of the Scored the call returned.
ReturnedScore == scoreds[fromRet.ref].score

\* x lies in (0, 1].
InScoreRange(x) == Less(RatZero, x) /\ ~Less(RatOne, x)

\* x lies in [0, 1).
InNormalRange(x) == ~Less(x, RatZero) /\ Less(x, RatOne)

\* Null exactly for a null or undefined result or a score of 0; a Scored of a
\* score in (0, 1] otherwise, 1 for a score outside [0, 1).
FromNullOrScored ==
    /\ fromRet = Null <=> (fromArg = Null \/ fromArg = Undefined \/ fromScore = RatZero)
    /\ fromRet # Null =>
          /\ ReturnedScored
          /\ InScoreRange(ReturnedScore)
          /\ (fromScore # Undefined /\ ~InNormalRange(fromScore)) => ReturnedScore = RatOne
          /\ (fromScore # Undefined /\ InNormalRange(fromScore)) => ReturnedScore = fromScore

-----------------------------------------------------------------------------
\* C31 (as claimed): Scored.from returns null exactly when the result is null or
\* undefined or the score is 0; in every other case it returns a Scored whose
\* score lies in (0, 1], a supplied score outside [0, 1) being normalized to 1
\* and an omitted score being 1.
C31_OmittedIsOne ==
    FromCalled =>
        /\ FromNullOrScored
        /\ (fromRet # Null /\ fromScore = Undefined) => ReturnedScore = RatOne

\* C31 (amended): as claimed, but an omitted score is 1 only for a result that is
\* not itself a Scored; an existing Scored given without a score keeps its score.
C31_OmittedKeepsScore ==
    FromCalled =>
        /\ FromNullOrScored
        /\ (fromRet # Null /\ fromScore = Undefined) =>
              ReturnedScore = IF fromArg.t = "Scored"
                              THEN fromBefore[fromArg.ref].score
                              ELSE RatOne

\* Witness: Scored.from(s) on a Scored s of score 0.5 returned a Scored of score 0.5.
C31_Witness ==
    /\ FromCalled
    /\ fromArg.t = "Scored"
    /\ fromScore = Undefined
    /\ ReturnedScored
    /\ ReturnedScore = Rat(1, 2)

\* The call was given an existing Scored.
GivenScored == fromArg.t = "Scored"

\* The call returned the instance it was given.
ReturnedSame == fromRet = fromArg

\* The call returned an instance that did not exist before, of the result of the
\* one it was given and of the normalized score.
ReturnedRewrapped ==
    /\ ReturnedScored
    /\ fromRet.ref \notin DOMAIN fromBefore
    /\ scoreds[fromRet.ref] = [result |-> fromBefore[fromArg.ref].result,
                               score  |-> normalizedScore(fromScore)]

\* Every instance that existed when the call was made is as it was, and no
\* instance wraps a Scored.
NothingChangedOrNested ==
    /\ \A n \in DOMAIN fromBefore : n \in DOMAIN scoreds /\ scoreds[n] = fromBefore[n]
    /\ \A n \in DOMAIN scoreds : scoreds[n].result.t # "Scored"

\* The call keeps the instance: no score is given, or the normalized score is its score.
KeepsInstance ==
    \/ fromScore = Undefined
    \/ normalizedScore(fromScore) = fromBefore[fromArg.ref].score

-----------------------------------------------------------------------------
\* C32 (as claimed): applied to an existing Scored s, Scored.from returns the
\* very same instance s when no score is given or when the normalized score
\* equals s.score, and otherwise returns a new Scored that wraps s.result with
\* the new score; it never returns a Scored whose result is itself a Scored, and
\* s is left unchanged.
C32_SameOrRewrapped ==
    (FromCalled /\ GivenScored) =>
        /\ IF KeepsInstance THEN ReturnedSame ELSE ReturnedRewrapped
        /\ NothingChangedOrNested

\* C32 (amended): as claimed for every score but 0; with a score of 0 the call
\* returns null, and s is left unchanged then too.
C32_SameOrRewrappedOrNull ==
    (FromCalled /\ GivenScored) =>
        /\ IF fromScore = RatZero THEN fromRet = Null
           ELSE IF KeepsInstance THEN ReturnedSame
           ELSE ReturnedRewrapped
        /\ NothingChangedOrNested

\* Witness: a Scored of score 0.5 given with the score 1.5 came back as a new
\* Scored of score 1 of the same result, and the one given still has score 0.5.
C32_Witness ==
    /\ FromCalled /\ GivenScored
    /\ fromScore = Rat(3, 2)
    /\ fromBefore[fromArg.ref].score = Rat(1, 2)
    /\ ReturnedScored /\ fromRet # fromArg
    /\ ReturnedScore = RatOne
    /\ scoreds[fromArg.ref].score = Rat(1, 2)
    /\ scoreds[fromRet.ref].result = scoreds[fromArg.ref].result

-----------------------------------------------------------------------------
\* multiple, sorted and best of the transform library (specification SpecMultiple)
\*
\* A transform built by one of the three is called once.  It calls every
\* transform it was given; a transform may return its result or a promise of
\* it, so the results arrive in any order (flatMap merges them).  The results
\* are values here: each has a name of its own, <<k, j>> for the j-th result of
\* transform k, so that a result "itself" is the result of that name.

\* Most transforms given to multiple, sorted or best.
MaxTransforms == 2

\* Most results in a Multiple a transform returns.
MaxSpread == 2

\* A result that is no Scored.
Named(k, j) == [t |-> "object", name |-> <<k, j>>]

\* A Scored, or in sorted a Result with its score, as a value.
ScoredOf(result, score) == [t |-> "Scored", result |-> result, score |-> score]

\* new Multiple(results)
Multiple(results) == [t |-> "Multiple", results |-> results]

Plus(x, y) ==
    Rat(x.num * y.den + y.num * x.den, x.den * y.den)

\* Number.POSITIVE_INFINITY
PositiveInfinity == [t |-> "number", num |-> 1, den |-> 0]

\* filterOutNull
filterOutNull(results) ==
    SelectSeq(results, LAMBDA r : r # Null)

\* Variant: a Multiple passed on as one result.
SpreadNever(r) == <<r>>

\* flatMap(result => result instanceof Multiple
\*     ? observableFrom(result.results) : observableOf(result))
Spread(r) ==
    IF r.t = "Multiple" THEN r.results ELSE <<r>>

\* toArray() and the map after it, in multiple.
multiple(results) ==
    IF Len(results) = 0 THEN Null
    ELSE IF Len(results) = 1 THEN results[1]
    ELSE Multiple(results)

\* Array.prototype.sort with (a, b) => b.score - a.score: r goes before the first
\* element of a lower score, and after every element of its own score.
RECURSIVE InsertDescending(_, _)
InsertDescending(sortedResults, r) ==
    IF sortedResults = <<>>
    THEN <<r>>
    ELSE IF Less(Head(sortedResults).score, r.score)
    THEN <<r>> \o sortedResults
    ELSE <<Head(sortedResults)>> \o InsertDescending(Tail(sortedResults), r)

RECURSIVE SortDescending(_)
SortDescending(results) ==
    IF results = <<>>
    THEN <<>>
    ELSE InsertDescending(SortDescending(SubSeq(results, 1, Len(results) - 1)),
                          results[Len(results)])

\* Variant: the results left in the order of their arrival.
sortedAsArrived(results) ==
    IF Len(results) = 0 THEN Null
    ELSE IF Len(results) = 1 THEN results[1]
    ELSE Multiple(results)

\* toArray() and the map after it, in sorted.
sorted(results) ==
    IF Len(results) = 0 THEN Null
    ELSE IF Len(results) = 1 THEN results[1]
    ELSE Multiple(SortDescending(results))

\* Scored.from(result) on values: a Scored is returned as it is, anything else
\* is wrapped with the score 1.
FromValue(r) ==
    IF r.t = "Scored" THEN r ELSE ScoredOf(r, RatOne)

\* Scored.unwrap(result) on values.
UnwrapValue(r) ==
    IF r.t = "Scored" THEN r.result ELSE r

\* sort(): a transform of Multiple instances; any other result passes through.
sort(r) ==
    IF r.t = "Multiple"
    THEN Multiple(SortDescending([i \in DOMAIN r.results |-> FromValue(r.results[i])]))
    ELSE r

\* Variant: the tolerance left out of the comparison.
TakesWithoutTolerance(m, i, maxResults, tolerance, highScore) ==
    /\ Less(Rat(i, 1), maxResults)
    /\ ~Less(m.score, highScore)

\* (m, i) => i < maxResults && m.score + tolerance >= highScore
Takes(m, i, maxResults, tolerance, highScore) ==
    /\ Less(Rat(i, 1), maxResults)
    /\ ~Less(Plus(m.score, tolerance), highScore)

\* takeWhile(...) on results from the n-th on; the index i of takeWhile counts from 0.
RECURSIVE TakeWhileTop(_, _, _, _)
TakeWhileTop(results, n, maxResults, tolerance) ==
    IF /\ n <= Len(results)
       /\ Takes(results[n], n - 1, maxResults, tolerance, results[1].score)
    THEN <<results[n]>> \o TakeWhileTop(results, n + 1, maxResults, tolerance)
    ELSE <<>>

TopMessage == "top must only be called on Multiple of Scored"

\* The transform top returns, given its maxResults and tolerance: a transform of
\* Multiple instances; any other result passes through.
topTransform(r, maxResults, tolerance) ==
    IF r.t # "Multiple"
    THEN r
    ELSE IF \E i \in DOMAIN r.results : r.results[i].t # "Scored"
    THEN Throw(TopMessage)
    ELSE LET results == TakeWhileTop(r.results, 1, maxResults, tolerance)
         IN  IF Len(results) = 1 THEN results[1] ELSE Multiple(results)

\* best: pipe(multiple(...transforms), sort(), top({maxResults: 1}), Scored.unwrap),
\* from the result of multiple on. A null of multiple comes out as null: sort
\* and top act on Multiple instances only, and unwrap on Scored instances only.
bestOf(r) ==
    IF r = Null
    THEN Null
    ELSE UnwrapValue(topTransform(sort(r), RatOne, RatZero))

\* The scores of the results the transforms return.
ResultScores == { Rat(1, 2), Rat(3, 4) }

\* What transform k may return: null, a result without score, a Scored, or a
\* Multiple of at most MaxSpread Scored.
ReturnsOf(k, scored) ==
    {Null}
    \cup (IF scored THEN {} ELSE {Named(k, 0)})
    \cup {ScoredOf(Named(k, 0), s) : s \in ResultScores}
    \cup UNION {{Multiple([j \in 1 .. n |-> ScoredOf(Named(k, j), f[j])]) :
                    f \in [1 .. n -> ResultScores]} : n \in 0 .. MaxSpread}

InitMulti ==
    /\ helper \in {"multiple", "sorted", "best"}
    /\ \E n \in 0 .. MaxTransforms :
          \E returns \in [1 .. n -> UNION {ReturnsOf(k, FALSE) : k \in 1 .. n}] :
              /\ \A k \in 1 .. n : returns[k] \in ReturnsOf(k, helper = "sorted")
              /\ transforms = returns
    /\ undelivered = {}
    /\ collection = <<>>
    /\ output = <<>>
    /\ multiPc = "start"
    /\ ChainOff /\ ScoreOff /\ NormOff /\ RouteOff /\ TwoOff /\ ScoredOff /\ TopOff /\ MatchOff /\ RunOff /\ LegacyOff

\* The transform is called: flatMap(transform => transform(...args)) calls every
\* transform as the list is gone through.
CallTransforms ==
    /\ multiPc = "start"
    /\ undelivered' = DOMAIN transforms
    /\ multiPc' = "called"
    /\ UNCHANGED <<helper, transforms, collection, output,
                   chainVars, scoreVars, normVars, routeVars, twoVars, scoredVars, topVars, matchVars, runVars, legacyVars>>

\* The result of transform k arrives.
Arrive(k) ==
    /\ multiPc = "called"
    /\ k \in undelivered
    /\ undelivered' = undelivered \ {k}
    /\ collection' = collection \o
          (IF filterOutNull(<<transforms[k]>>) = <<>> THEN <<>> ELSE Spread(transforms[k]))
    /\ UNCHANGED <<helper, transforms, output, multiPc,
                   chainVars, scoreVars, normVars, routeVars, twoVars, scoredVars, topVars, matchVars, runVars, legacyVars>>

\* from: a transform that returns null emits nothing.
Emits(r) ==
    IF r = Null THEN <<>> ELSE <<r>>

\* Every result has arrived: toArray hands over the collection.
AllArrived ==
    /\ multiPc = "called"
    /\ undelivered = {}
    /\ output' = CASE helper = "multiple" -> <<multiple(collection)>>
                   [] helper = "sorted"   -> Emits(sorted(collection))
                   [] helper = "best"     -> <<bestOf(multiple(collection))>>
    /\ multiPc' = "done"
    /\ UNCHANGED <<helper, transforms, undelivered, collection,
                   chainVars, scoreVars, normVars, routeVars, twoVars, scoredVars, topVars, matchVars, runVars, legacyVars>>

NextMulti ==
    \/ CallTransforms
    \/ \E k \in 1 .. MaxTransforms : Arrive(k)
    \/ AllArrived

SpecMultiple == InitMulti /\ [][NextMulti]_vars

\* The results the transforms produce: those of a Multiple count one by one.
RECURSIVE Produced(_)
Produced(n) ==
    IF n = 0
    THEN <<>>
    ELSE Produced(n - 1) \o
         (IF transforms[n] = Null THEN <<>>
          ELSE IF transforms[n].t = "Multiple" THEN transforms[n].results
          ELSE <<transforms[n]>>)

AllProduced == Produced(Len(transforms))

Elements(results) == {results[i] : i \in DOMAIN results}

-----------------------------------------------------------------------------
\* C33: multiple(t1..tn) calls every transform and returns null when all of them
\* return null (or no transform is given), the single result when exactly one
\* result is produced, and otherwise a Multiple holding every non-null result,
\* the elements of a returned Multiple spread into it rather than nested.
C33_Multiple ==
    (helper = "multiple" /\ multiPc = "done") =>
        /\ undelivered = {}
        /\ Len(output) = 1
        /\ IF Len(AllProduced) = 0 THEN output[1] = Null
           ELSE IF Len(AllProduced) = 1 THEN output[1] = AllProduced[1]
           ELSE /\ output[1].t = "Multiple"
                /\ Len(output[1].results) = Len(AllProduced)
                /\ Elements(output[1].results) = Elements(AllProduced)
                /\ \A i \in DOMAIN output[1].results : output[1].results[i].t # "Multiple"

\* Witness: a Scored of transform 1 and a Multiple of two of transform 2 came
\* out as one Multiple of three, the two of transform 2 first.
C33_Witness ==
    /\ helper = "multiple" /\ multiPc = "done"
    /\ Len(transforms) = 2
    /\ transforms[1].t = "Scored"
    /\ transforms[2].t = "Multiple" /\ Len(transforms[2].results) = 2
    /\ output = <<Multiple(transforms[2].results \o <<transforms[1]>>)>>

\* The scores never go up along results.
NonIncreasing(results) ==
    \A i \in 1 .. Len(results) - 1 : ~Less(results[i].score, results[i + 1].score)

-----------------------------------------------------------------------------
\* C34: sorted(t1..tn) emits nothing when no transform yields a result, the
\* single result itself when exactly one result is produced, and otherwise a
\* Multiple holding every result of every transform (those of a returned
\* Multiple spread into it) in non-increasing score order, whatever the order in
\* which the transforms deliver.
C34_Sorted ==
    (helper = "sorted" /\ multiPc = "done") =>
        IF Len(AllProduced) = 0 THEN output = <<>>
        ELSE IF Len(AllProduced) = 1 THEN output = <<AllProduced[1]>>
        ELSE /\ Len(output) = 1
             /\ output[1].t = "Multiple"
             /\ Len(output[1].results) = Len(AllProduced)
             /\ Elements(output[1].results) = Elements(AllProduced)
             /\ NonIncreasing(output[1].results)

\* Witness: the result of score 0.5 of transform 1 arrived before the result of
\* score 0.75 of transform 2, and the Multiple holds the second one first.
C34_Witness ==
    /\ helper = "sorted" /\ multiPc = "done"
    /\ transforms = <<ScoredOf(Named(1, 0), Rat(1, 2)), ScoredOf(Named(2, 0), Rat(3, 4))>>
    /\ collection = transforms
    /\ output = <<Multiple(<<transforms[2], transforms[1]>>)>>

-----------------------------------------------------------------------------
\* top of the transform library (specification SpecTop)

\* Longest Multiple given to the transform top returns.
MaxMultipleLen == 3

MaxResultsMessage == "maxResults must be a number >= 1"

ToleranceMessage == "tolerance must be a number >= 0 and <= 1"

\* top(options), up to the return of the transform: its limits, or the error thrown.
top(opts) ==
    LET given(k) == IF Truthy(opts) THEN Get(opts, k) ELSE Undefined
        m == given("maxResults")
        tol == given("tolerance")
    IN  IF Truthy(m) /\ (TypeOf(m) # "number" \/ Less(m, RatOne))
        THEN Throw(MaxResultsMessage)
        ELSE IF Truthy(tol) /\ (TypeOf(tol) # "number" \/ Less(tol, RatZero) \/ Less(RatOne, tol))
        THEN Throw(ToleranceMessage)
        ELSE [t          |-> "transform",
              maxResults |-> IF Truthy(m) THEN m ELSE PositiveInfinity,
              tolerance  |-> IF Truthy(tol) THEN tol ELSE RatZero]

\* The values given as maxResults; Absent stands for a property left out.
MaxResultsGiven ==
    { Absent, Null, RatZero, Rat(1, 2), RatOne, Rat(2, 1), Rat(-1, 1), Str("2") }

\* The values given as tolerance.
ToleranceGiven ==
    { Absent, Null, RatZero, Rat(1, 4), RatOne, Rat(3, 2), Rat(-1, 4), Str("x") }

\* { maxResults, tolerance }, either possibly left out.
OptionsOf(m, tol) ==
    Obj([k \in (IF m = Absent THEN {} ELSE {"maxResults"})
               \cup (IF tol = Absent THEN {} ELSE {"tolerance"}) |->
            IF k = "maxResults" THEN m ELSE tol])

\* The scores of the results given to the transform.
TopScores == { Rat(1, 4), Rat(1, 2), Rat(3, 4) }

\* The Multiples of Scored in descending score order, of 1 to MaxMultipleLen results,
\* and one result that is no Multiple.
TopInputs ==
    {ScoredOf(Named(1, 0), Rat(1, 2))}
    \cup UNION {{Multiple([i \in 1 .. n |-> ScoredOf(Named(i, 0), f[i])]) :
                    f \in {g \in [1 .. n -> TopScores] :
                              \A i \in 1 .. n - 1 : ~Less(g[i], g[i + 1])}} :
                n \in 1 .. MaxMultipleLen}

InitTop ==
    /\ options \in {Undefined} \cup {OptionsOf(m, tol) : m \in MaxResultsGiven, tol \in ToleranceGiven}
    /\ topInput \in TopInputs
    /\ topBuilt = NoCall
    /\ topOutput = NoCall
    /\ topPc = "start"
    /\ ChainOff /\ ScoreOff /\ NormOff /\ RouteOff /\ TwoOff /\ ScoredOff /\ MultiOff /\ MatchOff /\ RunOff /\ LegacyOff

\* top(options)
BuildTop ==
    /\ topPc = "start"
    /\ topBuilt' = top(options)
    /\ topPc' = IF Throws(topBuilt') THEN "failed" ELSE "built"
    /\ UNCHANGED <<options, topInput, topOutput,
                   chainVars, scoreVars, normVars, routeVars, twoVars, scoredVars, multiVars, matchVars, runVars, legacyVars>>

\* The transform is called on its input.
CallTop ==
    /\ topPc = "built"
    /\ topOutput' = topTransform(topInput, topBuilt.maxResults, topBuilt.tolerance)
    /\ topPc' = "called"
    /\ UNCHANGED <<options, topBuilt, topInput,
                   chainVars, scoreVars, normVars, routeVars, twoVars, scoredVars, multiVars, matchVars, runVars, legacyVars>>

NextTop ==
    \/ BuildTop
    \/ CallTop

SpecTop == InitTop /\ [][NextTop]_vars

\* What the options say, Absent for what they leave out.
Option(k) ==
    IF options = Undefined \/ k \notin DOMAIN options.f THEN Absent ELSE options.f[k]

\* The options are as the documentation allows: maxResults a whole number of at
\* least 1, tolerance a number from 0 to 1, either possibly left out.
ValidOptions ==
    /\ Option("maxResults") \in {Absent, RatOne, Rat(2, 1)}
    /\ Option("tolerance") \in {Absent, RatZero, Rat(1, 4), RatOne}

\* The limit on the number of results, MaxMultipleLen + 1 when there is none.
Limit ==
    IF Option("maxResults") = Absent THEN MaxMultipleLen + 1 ELSE Option("maxResults").num

Tolerance ==
    IF Option("tolerance") = Absent THEN RatZero ELSE Option("tolerance")

\* The first m results are all within the tolerance of the first.
WithinTolerance(m) ==
    \A i \in 1 .. m :
        ~Less(Plus(topInput.results[i].score, Tolerance), topInput.results[1].score)

\* The length of the longest such prefix, cut to the limit.
TopLength ==
    LET longest == CHOOSE m \in 0 .. Len(topInput.results) :
                       /\ WithinTolerance(m)
                       /\ \A l \in m + 1 .. Len(topInput.results) : ~WithinTolerance(l)
    IN  IF longest < Limit THEN longest ELSE Limit

-----------------------------------------------------------------------------
\* C35: for a Multiple of Scored results in descending score order,
\* top({maxResults, tolerance}) returns the longest prefix whose elements all
\* satisfy score + tolerance >= the first element's score, cut to at most
\* maxResults elements (defaults: no limit and tolerance 0); an outcome of
\* exactly one element is returned as that element itself, not as a Multiple.
C35_TopPrefix ==
    (topPc = "called" /\ ValidOptions /\ topInput.t = "Multiple") =>
        IF TopLength = 1
        THEN topOutput = topInput.results[1]
        ELSE topOutput = Multiple(SubSeq(topInput.results, 1, TopLength))

\* Witness: of the scores 0.75, 0.5, 0.5 with tolerance 0.25 and maxResults 2 the
\* first two results came back as a Multiple.
C35_Witness ==
    /\ topPc = "called"
    /\ Option("maxResults") = Rat(2, 1) /\ Option("tolerance") = Rat(1, 4)
    /\ topInput.t = "Multiple" /\ Len(topInput.results) = 3
    /\ topInput.results[1].score = Rat(3, 4)
    /\ topInput.results[2].score = Rat(1, 2)
    /\ topInput.results[3].score = Rat(1, 2)
    /\ topOutput = Multiple(SubSeq(topInput.results, 1, 2))

\* The options carry a maxResults that is not a number of at least 1.
InvalidMaxResults ==
    /\ Option("maxResults") # Absent
    /\ \/ TypeOf(Option("maxResults")) # "number"
       \/ Less(Option("maxResults"), RatOne)

\* The options carry a tolerance that is not a number from 0 to 1.
InvalidTolerance ==
    /\ Option("tolerance") # Absent
    /\ \/ TypeOf(Option("tolerance")) # "number"
       \/ Less(Option("tolerance"), RatZero)
       \/ Less(RatOne, Option("tolerance"))

-----------------------------------------------------------------------------
\* C36 (as claimed): top rejects invalid options at construction: every
\* maxResults that is not a number greater than or equal to 1 (0 included) and
\* every tolerance that is not a number in [0, 1] raises an error instead of
\* producing a transform.
C36_InvalidRejected ==
    (topPc \in {"built", "failed", "called"} /\ (InvalidMaxResults \/ InvalidTolerance)) =>
        Throws(topBuilt)

-----------------------------------------------------------------------------
\* match and branch of src/matching.ts (specification SpecMatch). A function
\* handed to match is modelled by what it returns when called: a value or a
\* promise of a value (Returns<T>).

\* The number of calls of the built transform.
MaxCalls == 2

\* A promise resolved with v.
PromiseOf(v) == [t |-> "promise", value |-> v]

\* The value a returned value or promise resolves to.
Await(x) == IF x.t = "promise" THEN x.value ELSE x

\* toPromise: a promise is returned as it is, a value as a resolved promise.
toPromise(x) == IF x.t = "promise" THEN x ELSE PromiseOf(x)

promiseOfNull == PromiseOf(Null)

\* An invocation of one branch: onResult receives o, onNull receives nothing.
BranchCall(fn, arg) == [fn |-> fn, arg |-> arg]

\* branch with a test of o === null in place of o == null.
branchStrict(onResult, onNull, o) ==
    IF o = Null
    THEN IF onNull # Absent
         THEN [invoked |-> <<BranchCall("onNull", Absent)>>, ret |-> toPromise(onNull)]
         ELSE [invoked |-> <<>>, ret |-> promiseOfNull]
    ELSE [invoked |-> <<BranchCall("onResult", o)>>, ret |-> toPromise(onResult)]

\* branch(onResult, onNull)(o): o == null holds of null and undefined only.
branch(onResult, onNull, o) ==
    IF o \in {Null, Undefined}
    THEN IF onNull # Absent
         THEN [invoked |-> <<BranchCall("onNull", Absent)>>, ret |-> toPromise(onNull)]
         ELSE [invoked |-> <<>>, ret |-> promiseOfNull]
    ELSE [invoked |-> <<BranchCall("onResult", o)>>, ret |-> toPromise(onResult)]

\* pipe(matcher, second): the second transform receives what the matcher's
\* result resolves to.
pipeArgument(returned) == Await(returned)

\* pipe(matcher, second): the new transform returns a promise of what the
\* second transform's result resolves to.
pipeResult(returned) == PromiseOf(Await(returned))

\* match(matcher, onResult, onNull) called, the matcher having returned matched.
match(matched, onResult, onNull) ==
    LET r == branch(onResult, onNull, pipeArgument(matched))
    IN  [invoked |-> r.invoked, ret |-> pipeResult(r.ret)]

\* What a matcher returns: null, undefined, falsy and truthy values, promises.
MatcherResults ==
    {Null, Undefined, Bool(FALSE), Str(""), Str("Bill"),
     PromiseOf(Null), PromiseOf(Undefined), PromiseOf(Str("Bill"))}

\* What onResult and onNull return.
BranchReturns == {Null, Str("hi"), PromiseOf(Str("later"))}

InitMatch ==
    /\ onResultFn \in BranchReturns
    /\ onNullFn \in BranchReturns \cup {Absent}
    /\ matcherRet = NoCall
    /\ invocations = <<>>
    /\ matchRet = NoCall
    /\ matchPc = "idle"
    /\ matchCalls = 0
    /\ ChainOff /\ ScoreOff /\ NormOff /\ RouteOff /\ TwoOff /\ ScoredOff /\ MultiOff /\ TopOff /\ RunOff /\ LegacyOff

\* The transform is called: pipe calls the matcher with the arguments.
CallMatcher ==
    /\ matchPc \in {"idle", "returned"}
    /\ matchCalls < MaxCalls
    /\ matcherRet' \in MatcherResults
    /\ invocations' = <<>>
    /\ matchRet' = NoCall
    /\ matchPc' = "matched"
    /\ matchCalls' = matchCalls + 1
    /\ UNCHANGED <<onResultFn, onNullFn>>
    /\ UNCHANGED <<chainVars, scoreVars, normVars, routeVars, twoVars, scoredVars, multiVars, topVars, runVars, legacyVars>>

\* The matcher's result reaches branch, and the call returns.
Branch ==
    /\ matchPc = "matched"
    /\ LET r == match(matcherRet, onResultFn, onNullFn)
       IN  /\ invocations' = r.invoked
           /\ matchRet' = r.ret
    /\ matchPc' = "returned"
    /\ UNCHANGED <<matcherRet, onResultFn, onNullFn, matchCalls>>
    /\ UNCHANGED <<chainVars, scoreVars, normVars, routeVars, twoVars, scoredVars, multiVars, topVars, runVars, legacyVars>>

NextMatch == CallMatcher \/ Branch

SpecMatch == InitMatch /\ [][NextMatch]_vars

-----------------------------------------------------------------------------
ScoreOf(r) == FromValue(r).score

\* The transform a produced result comes from.
TransformOf(r) == UnwrapValue(r).name[1]

\* No produced result has a higher score than r.
Highest(r) ==
    \A i \in DOMAIN AllProduced : ~Less(ScoreOf(r), ScoreOf(AllProduced[i]))

-----------------------------------------------------------------------------
\* C38 (as claimed): best(t1..tn) of the transform library calls all transforms
\* and returns the unwrapped result of the highest-scoring one among all their
\* results (results of a returned Multiple included), as a single result and
\* never as a Multiple; among results tied for the highest score it returns the
\* one of the earliest transform.
C38_BestEarliest ==
    (helper = "best" /\ multiPc = "done" /\ AllProduced # <<>>) =>
        /\ undelivered = {}
        /\ Len(output) = 1
        /\ output[1].t # "Multiple"
        /\ \E i \in DOMAIN AllProduced :
              /\ output[1] = UnwrapValue(AllProduced[i])
              /\ Highest(AllProduced[i])
              /\ \A j \in DOMAIN AllProduced :
                    Highest(AllProduced[j]) =>
                        TransformOf(AllProduced[i]) <= TransformOf(AllProduced[j])

-----------------------------------------------------------------------------
\* Router.route$ (specification SpecRun). The router is any Router: its
\* getRoute$ yields one route, actionable or not, or completes without one. The
\* action of a route is modelled by what it returns when invoked: a plain value,
\* a promise or an Observable (Observableable<any>).

\* The number of calls of route$.
MaxRuns == 2

\* Most values the Observable an action returns delivers.
MaxValues == 2

\* An Observable that delivers the given values and completes.
ObservableOf(values) == [t |-> "Observable", values |-> values]

\* toObservable(t): the values the resulting Observable delivers.
toObservable(v) ==
    IF v.t = "Observable" THEN v.values
    ELSE IF v.t = "promise" THEN <<v.value>>
    ELSE <<v>>

\* What an action returns.
ActionReturns ==
    {Undefined, Str("done"), PromiseOf(Undefined)}
    \cup {ObservableOf([i \in 1 .. n |-> Str("done")]) : n \in 0 .. MaxValues}

\* What router.getRoute$(routable) yields: a route, or nothing.
RouterYields ==
    {Absent, noRoute(defaultReason), noRoute("no match")}
    \cup {actionRoute(a, s) : a \in ActionReturns, s \in {5, One}}

RunStart ==
    /\ yielded \in RouterYields
    /\ actionCalls = 0
    /\ actionLeft = <<>>
    /\ routeOut = <<>>
    /\ runPc = "start"

InitRun ==
    /\ RunStart
    /\ runs = 1
    /\ ChainOff /\ ScoreOff /\ NormOff /\ RouteOff /\ TwoOff /\ ScoredOff /\ MultiOff /\ TopOff /\ MatchOff /\ LegacyOff

\* router.getRoute$(routable) is subscribed and completes without a route.
NoRouteArrives ==
    /\ runPc = "start"
    /\ yielded = Absent
    /\ runPc' = "done"
    /\ UNCHANGED <<yielded, actionCalls, actionLeft, routeOut, runs>>
    /\ UNCHANGED <<chainVars, scoreVars, normVars, routeVars, twoVars, scoredVars, multiVars, topVars, matchVars, legacyVars>>

\* The route arrives in flatMap: an actionable route has its action invoked, a
\* no-route is answered with Observable.of(false).
RouteArrives ==
    /\ runPc = "start"
    /\ yielded # Absent
    /\ IF yielded.type = "action"
       THEN /\ actionCalls' = actionCalls + 1
            /\ actionLeft' = toObservable(yielded.action)
            /\ routeOut' = routeOut
            /\ runPc' = "acting"
       ELSE /\ actionCalls' = actionCalls
            /\ actionLeft' = actionLeft
            /\ routeOut' = Append(routeOut, FALSE)
            /\ runPc' = "done"
    /\ UNCHANGED <<yielded, runs>>
    /\ UNCHANGED <<chainVars, scoreVars, normVars, routeVars, twoVars, scoredVars, multiVars, topVars, matchVars, legacyVars>>

\* The action's observable delivers a value: .map(_ => true).
ActionDelivers ==
    /\ runPc = "acting"
    /\ actionLeft # <<>>
    /\ actionLeft' = Tail(actionLeft)
    /\ routeOut' = Append(routeOut, TRUE)
    /\ UNCHANGED <<yielded, actionCalls, runPc, runs>>
    /\ UNCHANGED <<chainVars, scoreVars, normVars, routeVars, twoVars, scoredVars, multiVars, topVars, matchVars, legacyVars>>

\* The action's observable completes, and with it route$.
ActionCompletes ==
    /\ runPc = "acting"
    /\ actionLeft = <<>>
    /\ runPc' = "done"
    /\ UNCHANGED <<yielded, actionCalls, actionLeft, routeOut, runs>>
    /\ UNCHANGED <<chainVars, scoreVars, normVars, routeVars, twoVars, scoredVars, multiVars, topVars, matchVars, legacyVars>>

\* route$ is called again.
RunAgain ==
    /\ runPc = "done"
    /\ runs < MaxRuns
    /\ runs' = runs + 1
    /\ yielded' \in RouterYields
    /\ actionCalls' = 0
    /\ actionLeft' = <<>>
    /\ routeOut' = <<>>
    /\ runPc' = "start"
    /\ UNCHANGED <<chainVars, scoreVars, normVars, routeVars, twoVars, scoredVars, multiVars, topVars, matchVars, legacyVars>>

NextRun ==
    \/ NoRouteArrives
    \/ RouteArrives
    \/ ActionDelivers
    \/ ActionCompletes
    \/ RunAgain

SpecRun == InitRun /\ [][NextRun]_vars

-----------------------------------------------------------------------------
\* C39 (as claimed): Router.route$ invokes the action of the resolved route exactly
\* once and then emits true when the router yields an actionable route, and
\* emits false without invoking any action when the router yields a no-route.
C39_RouteOnce ==
    /\ (TRUE \in Elements(routeOut)) => actionCalls = 1
    /\ (runPc = "done" /\ yielded # Absent) =>
        IF yielded.type = "action"
        THEN actionCalls = 1 /\ routeOut = <<TRUE>>
        ELSE actionCalls = 0 /\ routeOut = <<FALSE>>

-----------------------------------------------------------------------------
\* best of the legacy library, src/unnamed/part_004 (specification
\* SpecLegacy). A legacy route is {score?, action}; a legacy router says that it
\* has no route by completing without one. Scores are in tenths, as in Spec.

\* Most routers given to the legacy best.
MaxLegacy == 2

\* A legacy route with a score, and one without (score?: number).
LegacyRoute(action, score) == [action |-> action, score |-> score]

Unscored(action) == [action |-> action]

\* const minRoute: its action is the marker <<0, 0>>, the action of no router.
legacyMinRoute == LegacyRoute(<<0, 0>>, 0)

\* route.score === undefined ? 1 : route.score
ScoreOrOne(r) ==
    IF "score" \in DOMAIN r THEN r.score ELSE One

\* The function given to reduce.
Reducer(prev, current) ==
    IF ScoreOrOne(prev) > ScoreOrOne(current) THEN prev ELSE current

\* An entry of the argument list: undefined, or a router with what its getRoute
\* yields.
NoRouter == [given |-> FALSE, yields |-> <<>>]

LegacyRouter(yields) == [given |-> TRUE, yields |-> yields]

\* The routers entry k may be: getRoute yields nothing, or one route.
LegacyRoutersAt(k) ==
    {LegacyRouter(<<>>), LegacyRouter(<<Unscored(<<k, 1>>)>>)}
    \cup {LegacyRouter(<<LegacyRoute(<<k, 1>>, s)>>) : s \in CandScores}

InitLegacy ==
    /\ \E n \in 0 .. MaxLegacy :
          \E list \in [1 .. n -> {NoRouter} \cup UNION {LegacyRoutersAt(k) : k \in 1 .. n}] :
              /\ \A k \in 1 .. n : list[k] \in {NoRouter} \cup LegacyRoutersAt(k)
              /\ legacyRouters = list
    /\ legacyLeft = {}
    /\ legacyAcc = NoCall
    /\ legacyOut = <<>>
    /\ legacyPc = "start"
    /\ ChainOff /\ ScoreOff /\ NormOff /\ RouteOff /\ TwoOff /\ ScoredOff /\ MultiOff /\ TopOff /\ MatchOff /\ RunOff

\* getRoute(message) is subscribed: filteredRouter$ drops the undefined entries,
\* flatMap subscribes every router, reduce starts from minRoute.
LegacySubscribe ==
    /\ legacyPc = "start"
    /\ legacyLeft' = {k \in DOMAIN legacyRouters : legacyRouters[k].given}
    /\ legacyAcc' = legacyMinRoute
    /\ legacyPc' = "running"
    /\ UNCHANGED <<legacyRouters, legacyOut>>
    /\ UNCHANGED <<chainVars, scoreVars, normVars, routeVars, twoVars, scoredVars, multiVars, topVars, matchVars, runVars>>

\* getRoute of router k delivers its route, if it has one, and completes.
LegacyRouterYields(k) ==
    /\ legacyPc = "running"
    /\ k \in legacyLeft
    /\ legacyLeft' = legacyLeft \ {k}
    /\ legacyAcc' = IF legacyRouters[k].yields = <<>>
                    THEN legacyAcc
                    ELSE Reducer(legacyAcc, legacyRouters[k].yields[1])
    /\ UNCHANGED <<legacyRouters, legacyOut, legacyPc>>
    /\ UNCHANGED <<chainVars, scoreVars, normVars, routeVars, twoVars, scoredVars, multiVars, topVars, matchVars, runVars>>

\* Every router has completed: reduce emits what it has accumulated.
LegacyComplete ==
    /\ legacyPc = "running"
    /\ legacyLeft = {}
    /\ legacyOut' = <<legacyAcc>>
    /\ legacyPc' = "done"
    /\ UNCHANGED <<legacyRouters, legacyLeft, legacyAcc>>
    /\ UNCHANGED <<chainVars, scoreVars, normVars, routeVars, twoVars, scoredVars, multiVars, topVars, matchVars, runVars>>

NextLegacy ==
    \/ LegacySubscribe
    \/ \E k \in 1 .. MaxLegacy : LegacyRouterYields(k)
    \/ LegacyComplete

SpecLegacy == InitLegacy /\ [][NextLegacy]_vars

-----------------------------------------------------------------------------
\* C40 (as claimed): no resolution of best ever yields the sentinel minimum route
\* (score 0, action marked 'should never be called'), for any router list, the
\* empty list and lists whose routers yield nothing included; this holds for
\* Router.getRouteBest$ and for the legacy best.
C40_NeverMinRoute ==
    /\ \A i \in DOMAIN observer.out : observer.out[i] # minRoute
    /\ \A i \in DOMAIN legacyOut : legacyOut[i] # legacyMinRoute

=============================================================================
